---- MODULE Spec2Model ----
(***************************************************************************)
(* Crop recommendation engine: the rule-based compatibility scorer, the    *)
(* rotation analyzer, the get_recommendations orchestrator with its        *)
(* optional ML predictor, the lazily created predictor singleton and the   *)
(* view that persists the top recommendations.                             *)
(*                                                                         *)
(* Units.  pH is held in tenths (6.2 -> 62); N, P, K in kg/ha, moisture in *)
(* percent and temperature in degrees, all integers.  The comparisons      *)
(* x >= m * 0.7 and x >= m * 0.8 of the source are 10x >= 7m and           *)
(* 10x >= 8m: for every minimum of the crop table the float product is     *)
(* exact, so the integer form decides every comparison as the float form.  *)
(* expected_yield and profit_margin are held in hundredths (the source     *)
(* rounds them to 2 decimals).                                             *)
(*                                                                         *)
(* An Optional value is a sequence: <<>> is None, <<v>> is the value v.    *)
(***************************************************************************)
EXTENDS Integers, Sequences, FiniteSets, TLC

VARIABLES
    pc,             \* position of the call under study: "call" or "return"
    month,          \* timezone.now().month, read by get_current_season
    sc_crop,        \* calculate_compatibility_score: crop argument
    sc_args,        \* calculate_compatibility_score: the condition arguments
    sc_result,      \* calculate_compatibility_score: <<>> or <<returned dict>>
    ML_AVAILABLE,   \* services.py: whether "from .ml_service import get_ml_service" worked
    gr_args,        \* get_recommendations: the condition arguments
    gr_limit,       \* get_recommendations: limit
    gr_use_ml,      \* get_recommendations: use_ml
    predictor,      \* what the external predictor does during the call
    gr_result,      \* get_recommendations: <<>> or <<[status, list]>>
    current_year,   \* timezone.now().year, read by get_rotation_score
    rot_crop,       \* get_rotation_score: crop_name
    rot_history,    \* get_rotation_score: field_history, a list of dicts
    rot_years,      \* get_rotation_score: years_to_check
    rot_result,     \* get_rotation_score: <<>> or <<returned dict>>
    ML_MODELS_AVAILABLE, \* ml_service.py: whether the ModelLoader import worked
    ml_service,     \* ml_service.py: the global _ml_service, <<>> or <<instance>>
    instances,      \* every MLRecommendationService constructed, in order
    t_pc,           \* per thread: its place in get_ml_service
    t_new,          \* per thread: the instance its constructor call made
    t_inst,         \* per thread: what its last get_ml_service call returned
    t_calls,        \* per thread: get_ml_service calls begun
    returned,       \* the instances get_ml_service returned, in order of return
    last_reply,     \* the last reply of predict_crop_recommendations, <<>> before any
    fields,         \* per Field row: its stored soil values and location
    soil_data,      \* per field: field.soil_data.first(), <<>> or <<SoilData row>>
    weather,        \* per field: the WeatherData row found at its location, or <<>>
    table,          \* the Recommendation table, rows in order of creation
    last_request,   \* what the last recommendation_request read, passed on and saved
    n_ops,          \* operations on the store so far
    posts,          \* per submission in flight: its place in the save loop
    call_args,      \* the arguments of a call into business_logic's calculators
    call_result     \* <<>> before the call returns, <<its result>> after

scoreVars == <<sc_crop, sc_args, sc_result>>
engineVars == <<ML_AVAILABLE, gr_args, gr_limit, gr_use_ml, predictor, gr_result>>
rotationVars == <<current_year, rot_crop, rot_history, rot_years, rot_result>>
serviceVars == <<ML_MODELS_AVAILABLE, ml_service, instances, t_pc, t_new, t_inst, t_calls,
                 returned, last_reply>>
requestVars == <<fields, soil_data, weather, table, last_request, n_ops, posts>>
calcVars == <<call_args, call_result>>

None == <<>>
Some(v) == <<v>>
IsNone(x) == x = <<>>
Val(x) == x[1]

Abs(x) == IF x < 0 THEN -x ELSE x
Max(a, b) == IF a >= b THEN a ELSE b
Min(a, b) == IF a <= b THEN a ELSE b

(***************************************************************************)
(* Reference tables                                                        *)
(***************************************************************************)
\* CROP_REQUIREMENTS.keys() in insertion order
CropOrder ==
    <<"Rice", "Wheat", "Maize", "Cotton", "Sugarcane", "Potato", "Tomato",
      "Onion", "Chilli", "Groundnut", "Soybean", "Pigeon Pea">>

Crops == {CropOrder[i] : i \in 1..Len(CropOrder)}

Req(phmin, phmax, n, p, k, m, tmin, tmax, rain, seasons, sus) ==
    [ph_min |-> phmin, ph_max |-> phmax, n_min |-> n, p_min |-> p, k_min |-> k,
     moisture_min |-> m, temperature_min |-> tmin, temperature_max |-> tmax,
     rainfall_min |-> rain, season |-> seasons, sustainability_score |-> sus]

CROP_REQUIREMENTS ==
    [c \in Crops |->
       CASE c = "Rice"       -> Req(50, 75, 100, 20, 40, 60, 20, 35, 1000, {"kharif"}, 75)
         [] c = "Wheat"      -> Req(60, 75, 120, 30, 50, 40, 15, 25, 500, {"rabi"}, 80)
         [] c = "Maize"      -> Req(55, 70, 150, 25, 60, 50, 18, 30, 600, {"kharif", "zaid"}, 70)
         [] c = "Cotton"     -> Req(55, 80, 80, 20, 50, 50, 21, 35, 500, {"kharif"}, 65)
         [] c = "Sugarcane"  -> Req(60, 75, 200, 40, 100, 70, 20, 35, 1200, {"year_round"}, 60)
         [] c = "Potato"     -> Req(48, 55, 100, 50, 150, 60, 15, 25, 500, {"rabi", "zaid"}, 75)
         [] c = "Tomato"     -> Req(60, 70, 120, 40, 120, 60, 18, 28, 400, {"year_round"}, 70)
         [] c = "Onion"      -> Req(60, 70, 100, 30, 80, 50, 13, 25, 400, {"rabi", "kharif"}, 75)
         [] c = "Chilli"     -> Req(60, 70, 100, 30, 100, 50, 20, 30, 400, {"kharif", "rabi"}, 70)
         [] c = "Groundnut"  -> Req(60, 75, 20, 20, 40, 40, 20, 35, 500, {"kharif", "rabi"}, 80)
         [] c = "Soybean"    -> Req(60, 70, 20, 30, 50, 50, 20, 30, 600, {"kharif"}, 85)
         [] c = "Pigeon Pea" -> Req(60, 75, 20, 20, 30, 40, 20, 35, 600, {"kharif"}, 90)]

\* kg/hectare
AVERAGE_YIELDS ==
    [c \in Crops |->
       CASE c = "Rice" -> 3000 [] c = "Wheat" -> 3500 [] c = "Maize" -> 4000
         [] c = "Cotton" -> 500 [] c = "Sugarcane" -> 70000 [] c = "Potato" -> 25000
         [] c = "Tomato" -> 30000 [] c = "Onion" -> 20000 [] c = "Chilli" -> 15000
         [] c = "Groundnut" -> 2000 [] c = "Soybean" -> 2500 [] c = "Pigeon Pea" -> 1200]

\* currency/hectare
AVERAGE_PROFITS ==
    [c \in Crops |->
       CASE c = "Rice" -> 50000 [] c = "Wheat" -> 60000 [] c = "Maize" -> 55000
         [] c = "Cotton" -> 80000 [] c = "Sugarcane" -> 150000 [] c = "Potato" -> 200000
         [] c = "Tomato" -> 250000 [] c = "Onion" -> 180000 [] c = "Chilli" -> 200000
         [] c = "Groundnut" -> 70000 [] c = "Soybean" -> 60000 [] c = "Pigeon Pea" -> 50000]

Seasons == {"kharif", "rabi", "zaid"}

(***************************************************************************)
(* CropRecommendationService.get_current_season                            *)
(***************************************************************************)
\* a version that ends kharif a month early
SeasonWithOctoberInRabi(m) ==
    IF m \in {6, 7, 8, 9} THEN "kharif"
    ELSE IF m \in {10, 11, 12, 1, 2, 3} THEN "rabi"
    ELSE "zaid"

get_current_season(m) ==
    IF m \in {6, 7, 8, 9, 10} THEN "kharif"
    ELSE IF m \in {11, 12, 1, 2, 3} THEN "rabi"
    ELSE "zaid"

(***************************************************************************)
(* CropRecommendationService.calculate_compatibility_score                 *)
(* Each Check* operator is one "Check ..." block of the source: it yields  *)
(* the penalty, the match_details label and the reasons the block appends. *)
(***************************************************************************)
Factor(pen, lab, rs) == [penalty |-> pen, label |-> lab, reasons |-> rs]

Reason(text, v) == [text |-> text, value |-> v]

\* a version whose optimal range leaves its two ends out
CheckPhOpenRange(req, soil_ph) ==
    IF ~IsNone(soil_ph)
    THEN LET ph == Val(soil_ph) IN
         IF req.ph_min < ph /\ ph < req.ph_max
         THEN Factor(0, "optimal", <<>>)
         ELSE IF Abs(ph - req.ph_min) < 5 \/ Abs(ph - req.ph_max) < 5
         THEN Factor(10, "acceptable",
                     <<Reason("pH slightly outside optimal range", ph)>>)
         ELSE Factor(30, "poor", <<Reason("pH outside optimal range", ph)>>)
    ELSE Factor(5, "unknown", <<>>)

\* a version whose tolerance band takes in its far end
CheckPhClosedBand(req, soil_ph) ==
    IF ~IsNone(soil_ph)
    THEN LET ph == Val(soil_ph) IN
         IF req.ph_min <= ph /\ ph <= req.ph_max
         THEN Factor(0, "optimal", <<>>)
         ELSE IF Abs(ph - req.ph_min) <= 5 \/ Abs(ph - req.ph_max) <= 5
         THEN Factor(10, "acceptable",
                     <<Reason("pH slightly outside optimal range", ph)>>)
         ELSE Factor(30, "poor", <<Reason("pH outside optimal range", ph)>>)
    ELSE Factor(5, "unknown", <<>>)

CheckPh(req, soil_ph) ==
    IF ~IsNone(soil_ph)
    THEN LET ph == Val(soil_ph) IN
         IF req.ph_min <= ph /\ ph <= req.ph_max
         THEN Factor(0, "optimal", <<>>)
         ELSE IF Abs(ph - req.ph_min) < 5 \/ Abs(ph - req.ph_max) < 5
         THEN Factor(10, "acceptable",
                     <<Reason("pH slightly outside optimal range", ph)>>)
         ELSE Factor(30, "poor", <<Reason("pH outside optimal range", ph)>>)
    ELSE Factor(5, "unknown", <<>>)

\* a version that reads a missing nutrient as the value 0
MissingNutrientAsZero(name, minimum, soil_x) ==
    LET x == IF IsNone(soil_x) THEN 0 ELSE Val(soil_x) IN
    IF x >= minimum
    THEN Factor(0, "sufficient", <<>>)
    ELSE IF 10 * x >= 7 * minimum
    THEN Factor(5, "low", <<Reason(name \o " below optimal", x)>>)
    ELSE Factor(15, "deficient", <<Reason(name \o " significantly below optimal", x)>>)

\* The N, P and K blocks differ only in the requirement read and the wording.
CheckNutrient(name, minimum, soil_x) ==
    IF ~IsNone(soil_x)
    THEN LET x == Val(soil_x) IN
         IF x >= minimum
         THEN Factor(0, "sufficient", <<>>)
         ELSE IF 10 * x >= 7 * minimum
         THEN Factor(5, "low", <<Reason(name \o " below optimal", x)>>)
         ELSE Factor(15, "deficient",
                     <<Reason(name \o " significantly below optimal", x)>>)
    ELSE Factor(3, "unknown", <<>>)

\* a version that puts the edge of the "low" moisture tier where the nutrients
\* have theirs
CheckMoistureAtSeventy(req, soil_moisture) ==
    IF ~IsNone(soil_moisture)
    THEN LET x == Val(soil_moisture) IN
         IF x >= req.moisture_min
         THEN Factor(0, "sufficient", <<>>)
         ELSE IF 10 * x >= 7 * req.moisture_min
         THEN Factor(5, "low", <<Reason("Moisture below optimal", x)>>)
         ELSE Factor(10, "deficient",
                     <<Reason("Moisture significantly below optimal", x)>>)
    ELSE Factor(3, "unknown", <<>>)

CheckMoisture(req, soil_moisture) ==
    IF ~IsNone(soil_moisture)
    THEN LET x == Val(soil_moisture) IN
         IF x >= req.moisture_min
         THEN Factor(0, "sufficient", <<>>)
         ELSE IF 10 * x >= 8 * req.moisture_min
         THEN Factor(5, "low", <<Reason("Moisture below optimal", x)>>)
         ELSE Factor(10, "deficient",
                     <<Reason("Moisture significantly below optimal", x)>>)
    ELSE Factor(3, "unknown", <<>>)

CheckTemperature(req, temperature) ==
    IF ~IsNone(temperature)
    THEN LET t == Val(temperature) IN
         IF req.temperature_min <= t /\ t <= req.temperature_max
         THEN Factor(0, "optimal", <<>>)
         ELSE IF Abs(t - req.temperature_min) < 3 \/ Abs(t - req.temperature_max) < 3
         THEN Factor(5, "acceptable",
                     <<Reason("Temperature slightly outside optimal range", t)>>)
         ELSE Factor(15, "poor", <<Reason("Temperature outside optimal range", t)>>)
    ELSE Factor(3, "unknown", <<>>)

\* season is the argument, or the calendar season when the argument is None
CheckSeason(req, season, m) ==
    LET s == IF IsNone(season) THEN get_current_season(m) ELSE Val(season) IN
    IF s \in req.season \/ "year_round" \in req.season
    THEN Factor(0, "suitable", <<>>)
    ELSE Factor(20, "unsuitable", <<Reason("Current season not ideal for crop", 0)>>)

\* the score left as it is
NoClamp(score) == score

\* score = max(0, score)
ClampScore(score) == Max(0, score)

\* a version that bands the score as the rotation analysis bands its own
HeadlineAtRotationBands(score) ==
    IF score >= 90 THEN Reason("Excellent match for current conditions", 0)
    ELSE IF score >= 70 THEN Reason("Good match for current conditions", 0)
    ELSE IF score >= 50
    THEN Reason("Moderate match - some conditions need improvement", 0)
    ELSE Reason("Poor match - significant improvements needed", 0)

Headline(score) ==
    IF score >= 80 THEN Reason("Excellent match for current conditions", 0)
    ELSE IF score >= 60 THEN Reason("Good match for current conditions", 0)
    ELSE IF score >= 40
    THEN Reason("Moderate match - some conditions need improvement", 0)
    ELSE Reason("Poor match - significant improvements needed", 0)

FactorNames == {"ph", "n", "p", "k", "moisture", "temperature", "season"}

\* a version that also holds the rainfall against the crop's rainfall_min
ScoreAgainstWithRainfall(req, a, m) ==
    LET ph   == CheckPh(req, a.soil_ph)
        n    == CheckNutrient("Nitrogen", req.n_min, a.soil_n)
        p    == CheckNutrient("Phosphorus", req.p_min, a.soil_p)
        k    == CheckNutrient("Potassium", req.k_min, a.soil_k)
        mo   == CheckMoisture(req, a.soil_moisture)
        t    == CheckTemperature(req, a.temperature)
        se   == CheckSeason(req, a.season, m)
        rain == IF ~IsNone(a.rainfall) /\ Val(a.rainfall) < req.rainfall_min
                THEN 10 ELSE 0
        raw  == 100 - rain - ph.penalty - n.penalty - p.penalty - k.penalty
                    - mo.penalty - t.penalty - se.penalty
        score == ClampScore(raw)
    IN [score |-> score,
        reasons |-> <<Headline(score)>> \o ph.reasons \o n.reasons \o p.reasons
                      \o k.reasons \o mo.reasons \o t.reasons \o se.reasons,
        match_details |->
            [f \in FactorNames |->
               CASE f = "ph" -> ph.label
                 [] f = "n" -> n.label
                 [] f = "p" -> p.label
                 [] f = "k" -> k.label
                 [] f = "moisture" -> mo.label
                 [] f = "temperature" -> t.label
                 [] f = "season" -> se.label]]

\* the body of calculate_compatibility_score once the crop's requirements are read
ScoreAgainst(req, a, m) ==
    LET ph   == CheckPh(req, a.soil_ph)
        n    == CheckNutrient("Nitrogen", req.n_min, a.soil_n)
        p    == CheckNutrient("Phosphorus", req.p_min, a.soil_p)
        k    == CheckNutrient("Potassium", req.k_min, a.soil_k)
        mo   == CheckMoisture(req, a.soil_moisture)
        t    == CheckTemperature(req, a.temperature)
        se   == CheckSeason(req, a.season, m)
        raw  == 100 - ph.penalty - n.penalty - p.penalty - k.penalty
                    - mo.penalty - t.penalty - se.penalty
        score == ClampScore(raw)
    IN [score |-> score,
        reasons |-> <<Headline(score)>> \o ph.reasons \o n.reasons \o p.reasons
                      \o k.reasons \o mo.reasons \o t.reasons \o se.reasons,
        match_details |->
            [f \in FactorNames |->
               CASE f = "ph" -> ph.label
                 [] f = "n" -> n.label
                 [] f = "p" -> p.label
                 [] f = "k" -> k.label
                 [] f = "moisture" -> mo.label
                 [] f = "temperature" -> t.label
                 [] f = "season" -> se.label]]

\* a version without the early return: an unknown crop is scored against the
\* first entry of the table
ScoredAgainstFirstEntry(crop, a, m) ==
    ScoreAgainst(CROP_REQUIREMENTS[IF crop \in Crops THEN crop ELSE "Rice"], a, m)

calculate_compatibility_score(crop, a, m) ==
    IF crop \notin Crops
    THEN [score |-> 0,
          reasons |-> <<Reason("Crop not in database", 0)>>,
          match_details |-> [f \in {} |-> ""]]
    ELSE ScoreAgainst(CROP_REQUIREMENTS[crop], a, m)

(***************************************************************************)
(* list.sort(key=lambda x: x['confidence_score'], reverse=True): Python's  *)
(* sort is stable, and with reverse=True equal keys keep their order.      *)
(***************************************************************************)
\* a sort that puts a record before the records of equal key already placed
RECURSIVE InsertDescTiesFirst(_, _)
InsertDescTiesFirst(sorted, x) ==
    IF sorted = <<>> THEN <<x>>
    ELSE IF Head(sorted).confidence_score > x.confidence_score
    THEN <<Head(sorted)>> \o InsertDescTiesFirst(Tail(sorted), x)
    ELSE <<x>> \o sorted

\* x goes after every record whose key is greater or equal
RECURSIVE InsertDesc(_, _)
InsertDesc(sorted, x) ==
    IF sorted = <<>> THEN <<x>>
    ELSE IF Head(sorted).confidence_score >= x.confidence_score
    THEN <<Head(sorted)>> \o InsertDesc(Tail(sorted), x)
    ELSE <<x>> \o sorted

RECURSIVE SortByConfidence(_)
SortByConfidence(recs) ==
    IF recs = <<>> THEN <<>>
    ELSE InsertDesc(SortByConfidence(SubSeq(recs, 1, Len(recs) - 1)), recs[Len(recs)])

\* recs[:limit] for limit >= 0
Truncate(recs, limit) == SubSeq(recs, 1, Min(limit, Len(recs)))

\* dict.get(crop, default) on the reference tables
YieldOf(crop, default) == IF crop \in Crops THEN AVERAGE_YIELDS[crop] ELSE default
ProfitOf(crop, default) == IF crop \in Crops THEN AVERAGE_PROFITS[crop] ELSE default
SustainabilityOf(crop, default) ==
    IF crop \in Crops THEN CROP_REQUIREMENTS[crop].sustainability_score ELSE default

\* round(a / b) for a >= 0, b > 0
RoundDiv(a, b) == (2 * a + b) \div (2 * b)

(***************************************************************************)
(* MLRecommendationService.predict_crop_recommendations: with no crop      *)
(* model the reply is empty; otherwise one entry per class of the encoder, *)
(* sorted by confidence and cut to limit.  probs is the model's output in  *)
(* encoder class order.                                                    *)
(***************************************************************************)
predict_crop_recommendations(crop_model_loaded, probs, limit) ==
    IF ~crop_model_loaded THEN <<>>
    ELSE Truncate(SortByConfidence(probs), limit)

(***************************************************************************)
(* What ml_service.predict_crop_recommendations(...) hands to              *)
(* get_recommendations.  The bundled MLRecommendationService replies as    *)
(* above; any other object behind get_ml_service (the predictor is an      *)
(* external collaborator) replies with its list as it is.                  *)
(***************************************************************************)
PredictorReply(pr, limit) ==
    IF pr.kind = "MLRecommendationService"
    THEN predict_crop_recommendations(pr.crop_model_loaded, pr.probs, limit)
    ELSE pr.probs

(***************************************************************************)
(* The body of the "for rec in ml_recommendations" loop: one enhanced      *)
(* record.  y is the reply of predict_yield: <<>> (None) or <<yield>>.     *)
(***************************************************************************)
EnhancedRec(rec, y) ==
    LET crop == rec.crop_name
        expected_yield ==
            IF ~IsNone(y) THEN Val(y)
            ELSE YieldOf(crop, 0) * rec.confidence_score
        \* profit_per_kg = AVERAGE_PROFITS.get(crop, 0) / max(AVERAGE_YIELDS.get(crop, 1), 1),
        \* kept as a fraction in lowest hundreds (every table entry is a multiple of 100)
        per_kg_num == IF crop \in Crops THEN ProfitOf(crop, 0) \div 100 ELSE 0
        per_kg_den == IF crop \in Crops THEN Max(YieldOf(crop, 1), 1) \div 100 ELSE 1
        profit_margin == RoundDiv(expected_yield * per_kg_num, per_kg_den)
    IN [crop_name |-> crop,
        confidence_score |-> rec.confidence_score,
        expected_yield |-> expected_yield,
        profit_margin |-> profit_margin,
        sustainability_score |-> SustainabilityOf(crop, 70),
        reasons |-> <<Reason("ML model prediction with confidence",
                             rec.confidence_score)>>,
        match_details |-> [f \in {"ml_prediction"} |-> "True"],
        ml_prediction |-> TRUE]

\* the loop itself, over the first n records of the reply
RECURSIVE EnhanceAll(_, _, _)
EnhanceAll(recs, yields, n) ==
    IF n = 0 THEN <<>>
    ELSE Append(EnhanceAll(recs, yields, n - 1), EnhancedRec(recs[n], yields[n].value))

(***************************************************************************)
(* The try block of get_recommendations.  Its outcome is "returned" with   *)
(* the enhanced list, "empty" (the reply was empty or None, the block      *)
(* falls through) or "raised" (an exception left one of the three calls).  *)
(***************************************************************************)
\* a version that gives up on the yield of one record instead of on the list:
\* a record whose predict_yield raises is assembled from the average yield
MLPathKeepingRecords(pr, limit) ==
    IF pr.fault \in {"get_ml_service", "predict_crop_recommendations"}
    THEN [outcome |-> "raised", list |-> <<>>]
    ELSE LET reply == PredictorReply(pr, limit) IN
         IF reply = <<>> THEN [outcome |-> "empty", list |-> <<>>]
         ELSE [outcome |-> "returned", list |-> EnhanceAll(reply, pr.yields, Len(reply))]

MLPath(pr, limit) ==
    IF pr.fault \in {"get_ml_service", "predict_crop_recommendations"}
    THEN [outcome |-> "raised", list |-> <<>>]
    ELSE LET reply == PredictorReply(pr, limit) IN
         IF reply = <<>> THEN [outcome |-> "empty", list |-> <<>>]
         ELSE IF \E i \in 1..Len(reply) : pr.yields[i].raises
         THEN [outcome |-> "raised", list |-> <<>>]
         ELSE [outcome |-> "returned", list |-> EnhanceAll(reply, pr.yields, Len(reply))]

\* a handler that catches the import errors only
CaughtImportErrorOnly(exc) == exc \in {"ImportError", "ModuleNotFoundError"}

\* "except Exception": every exception of the try block is caught
Caught(exc) == TRUE

(***************************************************************************)
(* The rule-based loop of get_recommendations: one record per crop of the  *)
(* table, in table order.                                                  *)
(***************************************************************************)
\* a version that reports the average yield whatever the score
RuleBasedRecAverageYield(crop, a, m) ==
    LET compatibility == calculate_compatibility_score(crop, a, m) IN
    [crop_name |-> crop,
     confidence_score |-> compatibility.score,
     expected_yield |-> YieldOf(crop, 0) * 100,
     profit_margin |-> ProfitOf(crop, 0) * compatibility.score,
     sustainability_score |-> CROP_REQUIREMENTS[crop].sustainability_score,
     reasons |-> compatibility.reasons,
     match_details |-> compatibility.match_details,
     ml_prediction |-> FALSE]

RuleBasedRec(crop, a, m) ==
    LET compatibility == calculate_compatibility_score(crop, a, m) IN
    [crop_name |-> crop,
     confidence_score |-> compatibility.score,
     expected_yield |-> YieldOf(crop, 0) * compatibility.score,
     profit_margin |-> ProfitOf(crop, 0) * compatibility.score,
     sustainability_score |-> CROP_REQUIREMENTS[crop].sustainability_score,
     reasons |-> compatibility.reasons,
     match_details |-> compatibility.match_details,
     ml_prediction |-> FALSE]

\* "for crop in cls.CROP_REQUIREMENTS.keys(): ... recommendations.append(...)":
\* the list after the first n crops
RECURSIVE RuleBasedLoop(_, _, _)
RuleBasedLoop(n, a, m) ==
    IF n = 0 THEN <<>>
    ELSE Append(RuleBasedLoop(n - 1, a, m), RuleBasedRec(CropOrder[n], a, m))

RuleBasedRecs(a, m) == RuleBasedLoop(Len(CropOrder), a, m)

RuleBased(a, limit, m) == Truncate(SortByConfidence(RuleBasedRecs(a, m)), limit)

(***************************************************************************)
(* CropRecommendationService.get_recommendations                           *)
(***************************************************************************)
get_recommendations(a, limit, use_ml, ml_available, pr, m) ==
    LET ml == IF use_ml /\ ml_available THEN MLPath(pr, limit)
              ELSE [outcome |-> "empty", list |-> <<>>]
    IN IF ml.outcome = "returned"
       THEN [status |-> "returned", list |-> ml.list]
       ELSE IF ml.outcome = "raised" /\ ~Caught("Exception")
       THEN [status |-> "raised", list |-> <<>>]
       ELSE [status |-> "returned", list |-> RuleBased(a, limit, m)]

(***************************************************************************)
(* CropRotationAnalyzer                                                    *)
(* A history entry is a dict; a key the dict lacks is <<>> here, so        *)
(* h.get('crop_name') is the field itself and h.get('year', 0) is          *)
(* YearOf(h).  The 'season' key is never read.                             *)
(***************************************************************************)
CROP_FAMILIES ==
    [c \in Crops |->
       CASE c \in {"Rice", "Wheat", "Maize"} -> "cereal"
         [] c \in {"Soybean", "Groundnut", "Pigeon Pea"} -> "legume"
         [] c = "Cotton" -> "fiber"
         [] c = "Sugarcane" -> "cash"
         [] c = "Potato" -> "root"
         [] c \in {"Tomato", "Chilli"} -> "solanaceae"
         [] c = "Onion" -> "allium"]

COMPATIBLE_ROTATIONS ==
    [c \in Crops |->
       CASE c = "Rice"       -> {"Wheat", "Potato", "Groundnut", "Soybean"}
         [] c = "Wheat"      -> {"Rice", "Soybean", "Groundnut", "Potato"}
         [] c = "Maize"      -> {"Soybean", "Groundnut", "Wheat"}
         [] c = "Soybean"    -> {"Wheat", "Rice", "Maize", "Cotton"}
         [] c = "Groundnut"  -> {"Wheat", "Rice", "Maize"}
         [] c = "Cotton"     -> {"Wheat", "Soybean", "Groundnut"}
         [] c = "Potato"     -> {"Wheat", "Rice", "Soybean"}
         [] c = "Tomato"     -> {"Wheat", "Onion", "Groundnut"}
         [] c = "Onion"      -> {"Wheat", "Tomato", "Potato"}
         [] c = "Chilli"     -> {"Wheat", "Onion", "Groundnut"}
         [] c = "Pigeon Pea" -> {"Wheat", "Rice", "Cotton"}
         [] c = "Sugarcane"  -> {"Wheat", "Potato", "Groundnut"}]

IncompatibleKeys == {"Rice", "Wheat", "Maize", "Tomato", "Chilli", "Potato"}

\* a version of the table that lists only the other crops
IncompatibleOthersOnly ==
    [c \in IncompatibleKeys |->
       CASE c = "Rice"   -> {}
         [] c = "Wheat"  -> {}
         [] c = "Maize"  -> {"Rice", "Wheat"}
         [] c = "Tomato" -> {"Chilli", "Potato"}
         [] c = "Chilli" -> {"Tomato", "Potato"}
         [] c = "Potato" -> {"Tomato", "Chilli"}]

INCOMPATIBLE_CROPS ==
    [c \in IncompatibleKeys |->
       CASE c = "Rice"   -> {"Rice"}
         [] c = "Wheat"  -> {"Wheat"}
         [] c = "Maize"  -> {"Maize", "Rice", "Wheat"}
         [] c = "Tomato" -> {"Tomato", "Chilli", "Potato"}
         [] c = "Chilli" -> {"Chilli", "Tomato", "Potato"}
         [] c = "Potato" -> {"Potato", "Tomato", "Chilli"}]

\* CROP_FAMILIES.get(name, default), name being a crop name or None
FamilyOf(name, default) ==
    IF ~IsNone(name) /\ Val(name) \in Crops THEN CROP_FAMILIES[Val(name)] ELSE default

\* h.get('year', 0)
YearOf(h) == IF IsNone(h.year) THEN 0 ELSE Val(h.year)

\* h.get('crop_name') == name
NameIs(h, name) == ~IsNone(h.crop_name) /\ Val(h.crop_name) = name

\* h.get('crop_name') in names
NameIn(h, names) == ~IsNone(h.crop_name) /\ Val(h.crop_name) \in names

\* [h for h in field_history if h.get('year', 0) >= current_year - years_to_check]
\* a window one year too long
RecentHistoryOneMore(history, years, now) ==
    SelectSeq(history, LAMBDA h : YearOf(h) >= now - years - 1)

RecentHistory(history, years, now) ==
    SelectSeq(history, LAMBDA h : YearOf(h) >= now - years)

\* sum(1 for h in recent_history if ...)
CountIf(seq, P(_)) == Cardinality({i \in 1..Len(seq) : P(seq[i])})

\* the same-crop penalty without its cap
UncappedPenalty(same_crop_count) == same_crop_count * 25

\* penalty = min(same_crop_count * 25, 50)
SameCropPenalty(same_crop_count) == Min(same_crop_count * 25, 50)

\* one reason per matching entry, in history order
RECURSIVE ReasonsFor(_, _, _)
ReasonsFor(seq, names, text) ==
    IF seq = <<>> THEN <<>>
    ELSE (IF NameIn(Head(seq), names) THEN <<Reason(text, 0)>> ELSE <<>>)
            \o ReasonsFor(Tail(seq), names, text)

RotationHeadline(score) ==
    IF score >= 90 THEN Reason("Excellent crop rotation pattern", 0)
    ELSE IF score >= 70 THEN Reason("Good crop rotation pattern", 0)
    ELSE IF score >= 50
    THEN Reason("Moderate crop rotation - some improvements recommended", 0)
    ELSE Reason("Poor crop rotation - significant improvements needed", 0)

RotationResult(score, reasons, benefits, penalties) ==
    [rotation_score |-> score, reasons |-> reasons,
     rotation_benefits |-> benefits, rotation_penalties |-> penalties]

get_rotation_score(crop_name, field_history, years_to_check, now) ==
    IF field_history = <<>>
    THEN RotationResult(100, <<Reason("No crop history - rotation score neutral", 0)>>,
                        <<>>, <<>>)
    ELSE LET recent == RecentHistory(field_history, years_to_check, now) IN
    IF recent = <<>>
    THEN RotationResult(100,
                        <<Reason("No recent crop history - rotation score neutral", 0)>>,
                        <<>>, <<>>)
    ELSE LET same_crop_count == CountIf(recent, LAMBDA h : NameIs(h, crop_name))
             penalty == SameCropPenalty(same_crop_count)
             crop_family == FamilyOf(Some(crop_name), "unknown")
             incompatible_crops ==
                 IF crop_name \in IncompatibleKeys THEN INCOMPATIBLE_CROPS[crop_name] ELSE {}
             compatible_crops ==
                 IF crop_name \in Crops THEN COMPATIBLE_ROTATIONS[crop_name] ELSE {}
             incompatible_count == CountIf(recent, LAMBDA h : NameIn(h, incompatible_crops))
             compatible_count == CountIf(recent, LAMBDA h : NameIn(h, compatible_crops))
             has_non_legume ==
                 \E i \in 1..Len(recent) : FamilyOf(recent[i].crop_name, "") # "legume"
             legume_bonus == crop_family = "legume" /\ has_non_legume
             raw == 100 - (IF same_crop_count > 0 THEN penalty ELSE 0)
                        - 15 * incompatible_count
                        + 10 * compatible_count
                        + (IF legume_bonus THEN 5 ELSE 0)
             score == Max(0, Min(100, raw))
             same_reasons ==
                 IF same_crop_count > 0
                 THEN <<Reason("Crop rotation: crop grown recently - penalty", penalty)>>
                 ELSE <<>>
             same_penalties ==
                 IF same_crop_count > 0
                 THEN <<Reason("Crop was grown time(s) in last years", same_crop_count)>>
                 ELSE <<>>
             legume_reasons ==
                 IF legume_bonus
                 THEN <<Reason("Crop rotation: Legume crop benefits soil health", 0)>>
                 ELSE <<>>
             legume_benefits ==
                 IF legume_bonus
                 THEN <<Reason("Legume crop after non-legume improves soil nitrogen", 0)>>
                 ELSE <<>>
         IN RotationResult(
                score,
                <<RotationHeadline(score)>> \o same_reasons
                    \o ReasonsFor(recent, incompatible_crops,
                                  "Crop rotation: previous crop is incompatible")
                    \o ReasonsFor(recent, compatible_crops,
                                  "Crop rotation: Good rotation from previous crop")
                    \o legume_reasons,
                ReasonsFor(recent, compatible_crops, "Good rotation") \o legume_benefits,
                same_penalties
                    \o ReasonsFor(recent, incompatible_crops,
                                  "Incompatible crop grown recently"))

(***************************************************************************)
(* Inputs                                                                  *)
(***************************************************************************)
\* a crop name the tables do not hold
UnknownCrop == "Barley"

CropArgs == Crops \cup {UnknownCrop}

\* the requirements the input values of a call are placed around
ReqFor(crop) == IF crop \in Crops THEN CROP_REQUIREMENTS[crop] ELSE CROP_REQUIREMENTS["Rice"]

\* ceil(7 * m / 10) and ceil(8 * m / 10): the least value of the "low" tier
LowEdge7(m) == (7 * m + 9) \div 10
LowEdge8(m) == (8 * m + 9) \div 10

\* missing, on the requirement, on the edge of the next tier, far off
PhValues(req) == {None, Some(req.ph_min), Some(req.ph_max + 4), Some(req.ph_max + 5)}
NutrientValues(m) == {None, Some(m), Some(LowEdge7(m)), Some(0)}
MoistureValues(req) ==
    {None, Some(req.moisture_min), Some(LowEdge8(req.moisture_min)), Some(0)}
TemperatureValues(req) ==
    {None, Some(req.temperature_max), Some(req.temperature_max + 2),
     Some(req.temperature_max + 3)}
SeasonValues == {None} \cup {Some(s) : s \in Seasons}
\* the months on either side of each change of season
Months == {3, 4, 5, 6, 10, 11}

Args(ph, n, p, k, mo, t, rain, hum, lat, lon, se) ==
    [soil_ph |-> ph, soil_n |-> n, soil_p |-> p, soil_k |-> k, soil_moisture |-> mo,
     temperature |-> t, rainfall |-> rain, humidity |-> hum, latitude |-> lat,
     longitude |-> lon, season |-> se]

\* every requirement met exactly at its boundary, and a field well inside Rice's
BoundaryArgs(req) ==
    {Args(Some(ph), Some(req.n_min), Some(req.p_min), Some(req.k_min),
          Some(req.moisture_min), Some(t), None, None, None, None, se) :
        ph \in {req.ph_min, req.ph_max},
        t \in {req.temperature_min, req.temperature_max},
        se \in SeasonValues}
    \cup {Args(Some(62), Some(120), Some(25), Some(45), Some(65), Some(28),
               None, None, None, None, se) : se \in SeasonValues}

\* values one step on either side of every tier edge
EdgeArgs(req) ==
    {Args(Some(ph), Some(n), Some(p), Some(k), Some(mo), Some(t),
          None, None, None, None, se) :
        ph \in {req.ph_min - 6, req.ph_min - 5, req.ph_min - 4, req.ph_min,
                req.ph_max + 6},
        n \in {LowEdge7(req.n_min) - 1, req.n_min - 1},
        p \in {LowEdge7(req.p_min) - 1, req.p_min},
        k \in {LowEdge7(req.k_min) - 1, req.k_min},
        mo \in {LowEdge8(req.moisture_min) - 1, req.moisture_min - 1},
        t \in {req.temperature_min - 4, req.temperature_min - 3,
               req.temperature_min - 2, req.temperature_min,
               req.temperature_max + 4},
        se \in SeasonValues}

NoArgs == Args(None, None, None, None, None, None, None, None, None, None, None)

(***************************************************************************)
(* SpecScore: one call of calculate_compatibility_score                    *)
(***************************************************************************)
EngineIdle ==
    /\ ML_AVAILABLE = FALSE
    /\ gr_args = NoArgs
    /\ gr_limit = 0
    /\ gr_use_ml = FALSE
    /\ predictor = [kind |-> "MLRecommendationService", fault |-> "none",
                    crop_model_loaded |-> FALSE, probs |-> <<>>, yields |-> <<>>]
    /\ gr_result = <<>>

Fields == {"f1", "f2"}

\* Field.farm.user: the form offers a user the fields of the user's own farms
Owner == [f \in Fields |-> IF f = "f1" THEN "alice" ELSE "bob"]

Users == {Owner[f] : f \in Fields}

FieldRow(ph, n, p, k, mo, lat, lon, flat, flon) ==
    [soil_ph |-> ph, n_content |-> n, p_content |-> p, k_content |-> k,
     soil_moisture |-> mo, latitude |-> lat, longitude |-> lon,
     farm_latitude |-> flat, farm_longitude |-> flon]

\* a field with no soil values and no location of its own, on a farm at (20, 77)
BlankField == FieldRow(None, None, None, None, None, None, None, Some(20), Some(77))

\* the submissions that may be in flight together
Posts == {"post1", "post2"}

\* a submission whose form is not yet posted
NoPost == [pc |-> "form", field |-> "f1", recs |-> <<>>, i |-> 0, existing |-> 0]

RequestIdle ==
    /\ posts = [q \in Posts |-> NoPost]
    /\ fields = [f \in Fields |-> BlankField]
    /\ soil_data = [f \in Fields |-> <<>>]
    /\ weather = [f \in Fields |-> <<>>]
    /\ table = <<>>
    /\ last_request = <<>>
    /\ n_ops = 0

CalcIdle ==
    /\ call_args = <<>>
    /\ call_result = <<>>

Threads == {"t1", "t2"}

ServiceIdle ==
    /\ ML_MODELS_AVAILABLE = FALSE
    /\ ml_service = <<>>
    /\ instances = <<>>
    /\ t_pc = [t \in Threads |-> "idle"]
    /\ t_new = [t \in Threads |-> 0]
    /\ t_inst = [t \in Threads |-> 0]
    /\ t_calls = [t \in Threads |-> 0]
    /\ returned = <<>>
    /\ last_reply = <<>>

RotationIdle ==
    /\ current_year = 0
    /\ rot_crop = UnknownCrop
    /\ rot_history = <<>>
    /\ rot_years = 0
    /\ rot_result = <<>>

InitScore ==
    /\ pc = "call"
    /\ sc_crop \in CropArgs
    /\ \/ /\ \E ph \in PhValues(ReqFor(sc_crop)),
                n \in NutrientValues(ReqFor(sc_crop).n_min),
                p \in NutrientValues(ReqFor(sc_crop).p_min),
                k \in NutrientValues(ReqFor(sc_crop).k_min),
                mo \in MoistureValues(ReqFor(sc_crop)),
                t \in TemperatureValues(ReqFor(sc_crop)),
                se \in SeasonValues :
                sc_args = Args(ph, n, p, k, mo, t, None, None, None, None, se)
          /\ month \in (IF IsNone(sc_args.season) THEN Months ELSE {1})
       \/ /\ sc_args \in BoundaryArgs(ReqFor(sc_crop))
          /\ month \in (IF IsNone(sc_args.season) THEN 1..12 ELSE {1})
       \/ /\ sc_args \in EdgeArgs(ReqFor(sc_crop))
          /\ month \in (IF IsNone(sc_args.season) THEN Months ELSE {1})
    /\ sc_result = <<>>
    /\ EngineIdle
    /\ RotationIdle
    /\ ServiceIdle
    /\ RequestIdle
    /\ CalcIdle

CalculateCompatibilityScore ==
    /\ pc = "call"
    /\ sc_result' = <<calculate_compatibility_score(sc_crop, sc_args, month)>>
    /\ pc' = "return"
    /\ UNCHANGED <<month, sc_crop, sc_args, engineVars, rotationVars, serviceVars,
                   requestVars, calcVars>>

NextScore == CalculateCompatibilityScore

vars ==
    <<pc, month, scoreVars, engineVars, rotationVars, serviceVars, requestVars, calcVars>>

SpecScore == InitScore /\ [][NextScore]_vars

(***************************************************************************)
(* Spec: one call of get_recommendations                                   *)
(***************************************************************************)
MaxLimit == 13
MaxRecs == 3

ScoreIdle ==
    /\ sc_crop = UnknownCrop
    /\ sc_args = NoArgs
    /\ sc_result = <<>>

\* the conditions a call is made with
EngineArgs ==
    {Args(ph, n, p, k, mo, t, None, None, None, None, se) :
        ph \in {None, Some(62), Some(45)}, n \in {None, Some(120), Some(60)},
        p \in {Some(25)}, k \in {None, Some(45)},
        mo \in {None, Some(65)}, t \in {None, Some(28)}, se \in SeasonValues}

\* one field with and without rainfall, humidity and a position
EngineArgsWeather ==
    {Args(Some(62), Some(120), Some(25), Some(45), Some(65), Some(28),
          rain, hum, lat, lon, se) :
        rain \in {None, Some(0), Some(2000)}, hum \in {None, Some(80)},
        lat \in {None, Some(17)}, lon \in {None, Some(78)},
        se \in {Some("kharif"), Some("rabi")}}

\* the conditions of the calls made with use_ml
EngineArgsML ==
    {Args(Some(62), Some(120), Some(25), Some(45), Some(65), Some(28),
          None, None, None, None, Some("kharif"))}

\* one entry of the predictor's list
RecValues ==
    {[crop_name |-> "Rice", confidence_score |-> 90],
     [crop_name |-> "Rice", confidence_score |-> 40],
     [crop_name |-> UnknownCrop, confidence_score |-> 90]}

\* one reply of predict_yield: an exception, None, or a yield (in hundredths)
YieldReplies ==
    {[raises |-> TRUE, value |-> None], [raises |-> FALSE, value |-> None],
     [raises |-> FALSE, value |-> Some(250000)]}

Predictor(kind, fault, loaded, probs, yields) ==
    [kind |-> kind, fault |-> fault, crop_model_loaded |-> loaded,
     probs |-> probs, yields |-> yields]

NoPredictor == Predictor("MLRecommendationService", "none", FALSE, <<>>, <<>>)

PredictorKinds == {"MLRecommendationService", "substitute"}

Predictors ==
    {Predictor(kind, fault, TRUE, <<>>, <<>>) :
        kind \in PredictorKinds,
        fault \in {"get_ml_service", "predict_crop_recommendations"}}
    \cup {NoPredictor}
    \cup UNION {
        {Predictor(kind, "none", TRUE, probs, yields) :
            kind \in PredictorKinds,
            probs \in [1..len -> RecValues],
            yields \in [1..len -> YieldReplies]} : len \in 0..MaxRecs}

Init ==
    /\ pc = "call"
    /\ ML_AVAILABLE \in BOOLEAN
    /\ gr_use_ml \in BOOLEAN
    /\ IF gr_use_ml
       THEN /\ gr_args \in EngineArgsML
            /\ gr_limit \in {0, 1, MaxLimit}
            /\ IF ML_AVAILABLE THEN predictor \in Predictors ELSE predictor = NoPredictor
       ELSE /\ gr_args \in EngineArgs \cup EngineArgsWeather
            /\ gr_limit \in 0..MaxLimit
            /\ predictor = NoPredictor
    /\ month \in 1..12
    /\ IF IsNone(gr_args.season) THEN month \in {5, 6} ELSE month = 1
    /\ gr_result = <<>>
    /\ ScoreIdle
    /\ RotationIdle
    /\ ServiceIdle
    /\ RequestIdle
    /\ CalcIdle

GetRecommendations ==
    /\ pc = "call"
    /\ gr_result' = <<get_recommendations(gr_args, gr_limit, gr_use_ml, ML_AVAILABLE,
                                          predictor, month)>>
    /\ pc' = "return"
    /\ UNCHANGED <<month, scoreVars, ML_AVAILABLE, gr_args, gr_limit, gr_use_ml, predictor,
                   rotationVars, serviceVars, requestVars, calcVars>>

Next == GetRecommendations

Spec == Init /\ [][Next]_vars

(***************************************************************************)
(* SpecRotation: one call of get_rotation_score                            *)
(***************************************************************************)
MaxHist == 3
ThisYear == 2024

\* the default of years_to_check
DefaultYearsToCheck == 3

Entry(name, year) == [crop_name |-> name, year |-> year]

\* crop names of the history entries; <<>> is an entry without the key
EntryNames == {None, Some("Rice"), Some("Soybean"), Some("Tomato")}

\* outside the window, on its edge, or an entry without the key
EntryYears(now, years) == {None, Some(now - years - 1), Some(now - years)}

Histories(now, years) ==
    UNION {[1..len -> {Entry(c, y) : c \in EntryNames, y \in EntryYears(now, years)}] :
              len \in 0..MaxHist}

InitRotation ==
    /\ pc = "call"
    /\ month = 1
    /\ current_year = ThisYear
    /\ rot_years = DefaultYearsToCheck
    /\ rot_crop \in CropArgs
    /\ rot_history \in Histories(current_year, rot_years)
    /\ rot_result = <<>>
    /\ ScoreIdle
    /\ EngineIdle
    /\ ServiceIdle
    /\ RequestIdle
    /\ CalcIdle

GetRotationScore ==
    /\ pc = "call"
    /\ rot_result' = <<get_rotation_score(rot_crop, rot_history, rot_years, current_year)>>
    /\ pc' = "return"
    /\ UNCHANGED <<month, scoreVars, engineVars, current_year, rot_crop, rot_history,
                   rot_years, serviceVars, requestVars, calcVars>>

NextRotation == GetRotationScore

SpecRotation == InitRotation /\ [][NextRotation]_vars

(***************************************************************************)
(* SpecService: threads calling get_ml_service and the predictor           *)
(*                                                                         *)
(*     if _ml_service is None:                    CheckService             *)
(*         _ml_service = MLRecommendationService()  ConstructService, then *)
(*                                                  AssignService          *)
(*     return _ml_service                                                  *)
(*                                                                         *)
(* The function takes no lock, so another thread may run between the test, *)
(* the constructor call and the store to the global.                       *)
(***************************************************************************)
MaxCalls == 2

\* MLRecommendationService.__init__ and _load_models: the instance fields after
\* construction.  loader_ok, crop_ok and yield_ok say whether ModelLoader() and
\* the two load calls returned rather than raised; every exception is caught.
LoadModels(models_available, loader_ok, crop_ok, yield_ok) ==
    IF ~models_available
    THEN [crop_model_data |-> FALSE, yield_model_data |-> FALSE]
    ELSE IF ~loader_ok
    THEN [crop_model_data |-> FALSE, yield_model_data |-> FALSE]
    ELSE [crop_model_data |-> crop_ok, yield_model_data |-> yield_ok]

\* the class probabilities of a loaded crop model, in encoder class order
SampleProbs ==
    <<[crop_name |-> "Rice", confidence_score |-> 40],
      [crop_name |-> UnknownCrop, confidence_score |-> 90]>>

notServiceVars ==
    <<pc, month, scoreVars, engineVars, rotationVars, requestVars, calcVars>>

InitService ==
    /\ pc = "call"
    /\ month = 1
    /\ ML_MODELS_AVAILABLE \in BOOLEAN
    /\ ml_service = <<>>
    /\ instances = <<>>
    /\ t_pc = [t \in Threads |-> "idle"]
    /\ t_new = [t \in Threads |-> 0]
    /\ t_inst = [t \in Threads |-> 0]
    /\ t_calls = [t \in Threads |-> 0]
    /\ returned = <<>>
    /\ last_reply = <<>>
    /\ ScoreIdle
    /\ EngineIdle
    /\ RotationIdle
    /\ RequestIdle
    /\ CalcIdle

\* a thread enters get_ml_service and tests the global
CheckService(t) ==
    /\ t_pc[t] = "idle"
    /\ t_calls[t] < MaxCalls
    /\ t_calls' = [t_calls EXCEPT ![t] = @ + 1]
    /\ IF IsNone(ml_service)
       THEN /\ t_pc' = [t_pc EXCEPT ![t] = "construct"]
            /\ UNCHANGED <<t_inst, returned>>
       ELSE /\ t_inst' = [t_inst EXCEPT ![t] = Val(ml_service)]
            /\ returned' = Append(returned, Val(ml_service))
            /\ UNCHANGED t_pc
    /\ UNCHANGED <<ML_MODELS_AVAILABLE, ml_service, instances, t_new, last_reply>>
    /\ UNCHANGED notServiceVars

\* the constructor runs and loads (or fails to load) the model files
ConstructService(t) ==
    /\ t_pc[t] = "construct"
    /\ \E loader_ok \in BOOLEAN, crop_ok \in BOOLEAN, yield_ok \in BOOLEAN :
          instances' = Append(instances,
                              LoadModels(ML_MODELS_AVAILABLE, loader_ok, crop_ok, yield_ok))
    /\ t_new' = [t_new EXCEPT ![t] = Len(instances) + 1]
    /\ t_pc' = [t_pc EXCEPT ![t] = "assign"]
    /\ UNCHANGED <<ML_MODELS_AVAILABLE, ml_service, t_inst, t_calls, returned, last_reply>>
    /\ UNCHANGED notServiceVars

\* the new instance is stored in the global and returned
AssignService(t) ==
    /\ t_pc[t] = "assign"
    /\ ml_service' = Some(t_new[t])
    /\ t_inst' = [t_inst EXCEPT ![t] = t_new[t]]
    /\ returned' = Append(returned, t_new[t])
    /\ t_pc' = [t_pc EXCEPT ![t] = "idle"]
    /\ UNCHANGED <<ML_MODELS_AVAILABLE, instances, t_new, t_calls, last_reply>>
    /\ UNCHANGED notServiceVars

\* a thread calls predict_crop_recommendations on the instance it was handed
PredictCrops(t) ==
    /\ t_pc[t] = "idle"
    /\ t_inst[t] # 0
    /\ \E limit \in {1, 2} :
          last_reply' = <<[instance |-> t_inst[t],
                           list |-> predict_crop_recommendations(
                                        instances[t_inst[t]].crop_model_data,
                                        SampleProbs, limit)]>>
    /\ UNCHANGED <<ML_MODELS_AVAILABLE, ml_service, instances, t_pc, t_new, t_inst,
                   t_calls, returned>>
    /\ UNCHANGED notServiceVars

NextService ==
    \/ \E t \in Threads : CheckService(t)
    \/ \E t \in Threads : ConstructService(t)
    \/ \E t \in Threads : AssignService(t)
    \/ \E t \in Threads : PredictCrops(t)

SpecService == InitService /\ [][NextService]_vars

(***************************************************************************)
(* Properties of get_ml_service (SpecService)                              *)
(***************************************************************************)
\* C5: under concurrent first calls MLRecommendationService is constructed
\* exactly once and every caller, then and later, receives that same instance.
C5_SingleInstance ==
    /\ Len(instances) <= 1
    /\ \A i \in 1..Len(returned) : returned[i] = returned[1]

\* C6: when the crop model failed to load in the first get_ml_service call,
\* every later call returns that same instance, no other load is attempted, and
\* predict_crop_recommendations keeps returning an empty list.
C6_FailureCached ==
    (returned # <<>> /\ ~instances[returned[1]].crop_model_data)
        => /\ \A i \in 1..Len(returned) : returned[i] = returned[1]
           /\ Len(instances) = 1
           /\ last_reply # <<>> => last_reply[1].list = <<>>

(***************************************************************************)
(* Properties of get_rotation_score (SpecRotation)                         *)
(***************************************************************************)
Rotated == pc = "return" /\ rot_result # <<>>

\* an entry that lacks its year or its crop name
Malformed(e) == IsNone(e.year) \/ IsNone(e.crop_name)

InWindow(e) == ~IsNone(e.year) /\ Val(e.year) >= current_year - rot_years

SameOutcome(a, b) ==
    /\ a.rotation_score = b.rotation_score
    /\ a.rotation_benefits = b.rotation_benefits
    /\ a.rotation_penalties = b.rotation_penalties

\* C9: a malformed entry (no year, or no crop name) is skipped: with it appended
\* to the history, get_rotation_score returns the same rotation_score, benefits
\* and penalties as without it.
C9_MalformedSkipped ==
    Rotated =>
        \A c \in EntryNames, y \in EntryYears(current_year, rot_years) :
            Malformed(Entry(c, y)) =>
                SameOutcome(get_rotation_score(rot_crop, Append(rot_history, Entry(c, y)),
                                               rot_years, current_year),
                            rot_result[1])

\* the number of in-window entries of the crop under evaluation
SameCropCount ==
    Cardinality({i \in 1..Len(rot_history) :
                    InWindow(rot_history[i]) /\ rot_history[i].crop_name = Some(rot_crop)})

PenaltyReasons ==
    SelectSeq(rot_result[1].reasons,
              LAMBDA r : r.text = "Crop rotation: crop grown recently - penalty")

\* C10: one more in-window entry of the crop itself never raises the
\* rotation_score, and the same-crop penalty is min(25 * N, 50), never above 50.
C10_SameCropMonotone ==
    Rotated =>
        /\ \A y \in EntryYears(current_year, rot_years) :
              InWindow(Entry(Some(rot_crop), y)) =>
                /\ get_rotation_score(rot_crop,
                                      Append(rot_history, Entry(Some(rot_crop), y)),
                                      rot_years, current_year).rotation_score
                       <= rot_result[1].rotation_score
                /\ get_rotation_score(rot_crop,
                                      <<Entry(Some(rot_crop), y)>> \o rot_history,
                                      rot_years, current_year).rotation_score
                       <= rot_result[1].rotation_score
        /\ Len(PenaltyReasons) = (IF SameCropCount > 0 THEN 1 ELSE 0)
        /\ \A i \in 1..Len(PenaltyReasons) :
              /\ PenaltyReasons[i].value = Min(25 * SameCropCount, 50)
              /\ PenaltyReasons[i].value <= 50

\* three in-window entries of the crop: 25 * N is 75, the penalty is 50
C10_Witness ==
    /\ Rotated
    /\ SameCropCount = 3
    /\ Len(PenaltyReasons) = 1
    /\ PenaltyReasons[1].value = 50
    /\ rot_result[1].rotation_score = 50

(***************************************************************************)
(* Properties of get_recommendations (Spec)                                *)
(***************************************************************************)
Returned == pc = "return" /\ gr_result # <<>>
ResultList == gr_result[1].list

NonIncreasing(list) ==
    \A i \in 1..Len(list), j \in 1..Len(list) :
        i < j => list[i].confidence_score >= list[j].confidence_score

\* the predictor fails somewhere in the call: one of the three calls raises,
\* or the reply is empty
PredictorFails ==
    \/ predictor.fault # "none"
    \/ PredictorReply(predictor, gr_limit) = <<>>
    \/ \E i \in 1..Len(PredictorReply(predictor, gr_limit)) : predictor.yields[i].raises

\* C1: with use_ml true, limit >= 1 and a predictor that fails at any point,
\* get_recommendations does not raise and returns a non-empty list of at most
\* limit rule-based records (ml_prediction = False) in non-increasing order of
\* confidence_score.
C1_FallbackNeverRaises ==
    (Returned /\ gr_use_ml /\ gr_limit >= 1 /\ PredictorFails)
        => /\ gr_result[1].status = "returned"
           /\ ResultList # <<>>
           /\ Len(ResultList) <= gr_limit
           /\ \A i \in 1..Len(ResultList) : ~ResultList[i].ml_prediction
           /\ NonIncreasing(ResultList)

\* predict_yield raises for a later record, after an earlier one was assembled
C1_Witness ==
    /\ Returned /\ gr_use_ml /\ ML_AVAILABLE /\ gr_limit >= 1
    /\ predictor.fault = "none"
    /\ Len(PredictorReply(predictor, gr_limit)) >= 2
    /\ ~predictor.yields[1].raises /\ predictor.yields[2].raises
    /\ gr_result[1].status = "returned"
    /\ ResultList # <<>>

PosOf(crop) == CHOOSE i \in 1..Len(CropOrder) : CropOrder[i] = crop

\* a ranks before b in a stable descending sort of the table's records
RanksBefore(a, b) ==
    \/ a.confidence_score > b.confidence_score
    \/ a.confidence_score = b.confidence_score /\ PosOf(a.crop_name) < PosOf(b.crop_name)

RuleBasedPath ==
    ~(gr_use_ml /\ ML_AVAILABLE /\ MLPath(predictor, gr_limit).outcome = "returned")

\* C3: on the rule-based path the result is the first min(limit, 12) records of
\* the table's records sorted by score, highest first, crops of equal score in
\* table order.
C3_StablePrefix ==
    (Returned /\ RuleBasedPath)
        => LET all == RuleBasedRecs(gr_args, month)
               L == ResultList
           IN /\ gr_result[1].status = "returned"
              /\ Len(L) = Min(gr_limit, Len(CropOrder))
              /\ \A i \in 1..Len(L) :
                    L[i].crop_name \in Crops /\ L[i] = all[PosOf(L[i].crop_name)]
              /\ \A i \in 1..Len(L), j \in 1..Len(L) : i < j => RanksBefore(L[i], L[j])
              /\ \A c \in 1..Len(all) :
                    (\A i \in 1..Len(L) : L[i].crop_name # all[c].crop_name)
                        => \A i \in 1..Len(L) : RanksBefore(L[i], all[c])

\* a truncated result with a tie inside it and a tie across the cut
C3_Witness ==
    /\ Returned /\ RuleBasedPath
    /\ gr_limit = 3
    /\ Len(ResultList) = 3
    /\ ResultList[1].confidence_score > ResultList[2].confidence_score
    /\ ResultList[2].confidence_score = ResultList[3].confidence_score
    /\ \E c \in Crops :
          /\ \A i \in 1..3 : ResultList[i].crop_name # c
          /\ RuleBasedRec(c, gr_args, month).confidence_score
                = ResultList[3].confidence_score

(***************************************************************************)
(* Properties of calculate_compatibility_score (SpecScore)                 *)
(***************************************************************************)
Scored == pc = "return" /\ sc_result # <<>>

\* C7: for every crop of the table and every combination of present and missing
\* pH, N, P, K, moisture, temperature and season, the call returns a score in
\* [0, 100].
C7_ScoreInRange ==
    (Scored /\ sc_crop \in Crops)
        => sc_result[1].score >= 0 /\ sc_result[1].score <= 100

\* every factor at its worst: the penalties add up to more than 100
C7_Witness ==
    /\ Scored /\ sc_crop \in Crops
    /\ sc_result[1].match_details["ph"] = "poor"
    /\ \A f \in {"n", "p", "k", "moisture"} : sc_result[1].match_details[f] = "deficient"
    /\ sc_result[1].match_details["temperature"] = "poor"
    /\ sc_result[1].match_details["season"] = "unsuitable"
    /\ sc_result[1].score = 0

\* ---------------------------------------------------------------------------
\* The recommendation request: views.recommendation_request over the stored
\* field, its latest soil sample and weather row, and the Recommendation table
\* ---------------------------------------------------------------------------

MaxOps == 2

\* truth value of an Optional Decimal in "float(x) if x else ...": None and 0 are false
Truthy(x) == ~IsNone(x) /\ Val(x) # 0

\* float(x) if x else fallback
FloatOr(x, fallback) == IF Truthy(x) THEN x ELSE fallback

SoilRow(ph, n, p, k, mo) == [ph |-> ph, n |-> n, p |-> p, k |-> k, moisture |-> mo]

WeatherRow(t, rain, hum) == [temperature |-> t, rainfall |-> rain, humidity |-> hum]

\* the keyword arguments get_recommendation_for_field hands to get_recommendations
FieldArgs(field, latest_soil, weather_data) ==
    LET soil_ph == FloatOr(field.soil_ph, None)
        soil_n == FloatOr(field.n_content, None)
        soil_p == FloatOr(field.p_content, None)
        soil_k == FloatOr(field.k_content, None)
        soil_moisture == FloatOr(field.soil_moisture, None)
        own == Truthy(field.latitude) /\ Truthy(field.longitude)
        farm == Truthy(field.farm_latitude) /\ Truthy(field.farm_longitude)
        latitude == IF own THEN field.latitude
                    ELSE IF farm THEN field.farm_latitude ELSE None
        longitude == IF own THEN field.longitude
                     ELSE IF farm THEN field.farm_longitude ELSE None
        w == weather_data # <<>>
        temperature == IF w THEN FloatOr(Some(weather_data[1].temperature), None) ELSE None
        rainfall == IF w THEN FloatOr(Some(weather_data[1].rainfall), None) ELSE None
        humidity == IF w THEN FloatOr(Some(weather_data[1].humidity), None) ELSE None
        l == latest_soil # <<>>
    IN Args(IF l THEN FloatOr(latest_soil[1].ph, soil_ph) ELSE soil_ph,
            IF l THEN FloatOr(latest_soil[1].n, soil_n) ELSE soil_n,
            IF l THEN FloatOr(latest_soil[1].p, soil_p) ELSE soil_p,
            IF l THEN FloatOr(latest_soil[1].k, soil_k) ELSE soil_k,
            IF l THEN FloatOr(latest_soil[1].moisture, soil_moisture) ELSE soil_moisture,
            temperature, rainfall, humidity, latitude, longitude, None)

get_recommendation_for_field(field, latest, weather_data, limit, use_ml, ml_ok, pr, m) ==
    get_recommendations(FieldArgs(field, latest, weather_data), limit, use_ml, ml_ok,
                        pr, m)

\* the weather row the view looks up: only when asked for and a location is known
LookupWeather(field, include_weather, found) ==
    IF include_weather
       /\ \/ Truthy(field.latitude) /\ Truthy(field.longitude)
          \/ Truthy(field.farm_latitude) /\ Truthy(field.farm_longitude)
    THEN found
    ELSE <<>>

\* a lookup of the existing row that never finds one (a faulty variant of FindExisting)
NeverFound(rows, user, field, crop_name) == 0

\* a lookup that leaves the crop name out of the filter
FindNewestOfField(rows, user, field, crop_name) ==
    LET found == {i \in 1..Len(rows) : rows[i].user = user /\ rows[i].field = field}
    IN IF found = {} THEN 0 ELSE CHOOSE i \in found : \A j \in found : j <= i

\* Recommendation.objects.filter(user, field, crop_name).order_by('-created_at').first():
\* the index of the newest matching row, 0 when there is none (rows are kept in
\* order of creation)
FindExisting(rows, user, field, crop_name) ==
    LET found == {i \in 1..Len(rows) : /\ rows[i].user = user
                                       /\ rows[i].field = field
                                       /\ rows[i].crop_name = crop_name}
    IN IF found = {} THEN 0 ELSE CHOOSE i \in found : \A j \in found : j <= i

ReasoningData(rec) == [reasons |-> rec.reasons, match_details |-> rec.match_details]

UpdateRow(row, rec) ==
    [row EXCEPT !.confidence_score = rec.confidence_score,
                !.expected_yield = rec.expected_yield,
                !.profit_margin = rec.profit_margin,
                !.sustainability_score = rec.sustainability_score,
                !.reasoning = ReasoningData(rec)]

CreateRow(pk, user, field, rec) ==
    [pk |-> pk, user |-> user, field |-> field, crop_name |-> rec.crop_name,
     confidence_score |-> rec.confidence_score,
     expected_yield |-> rec.expected_yield,
     profit_margin |-> rec.profit_margin,
     sustainability_score |-> rec.sustainability_score,
     reasoning |-> ReasoningData(rec)]

TopToSave == 5

RequestLimit == 10

\* the loop over recommendations[:5], from record i on: the table after it
RECURSIVE SaveTop(_, _, _, _, _)
SaveTop(rows, recs, i, user, field) ==
    IF i > Min(Len(recs), TopToSave) THEN rows
    ELSE LET rec == recs[i]
             existing == FindExisting(rows, user, field, rec.crop_name)
         IN IF existing # 0
            THEN SaveTop([rows EXCEPT ![existing] = UpdateRow(rows[existing], rec)],
                         recs, i + 1, user, field)
            ELSE SaveTop(Append(rows, CreateRow(Len(rows) + 1, user, field, rec)),
                         recs, i + 1, user, field)

ZeroField ==
    FieldRow(Some(0), Some(0), Some(0), Some(0), Some(0), None, None, Some(20), Some(77))

GoodField ==
    FieldRow(Some(62), Some(120), Some(25), Some(45), Some(65), None, None,
             Some(20), Some(77))

FieldProfiles == {BlankField, ZeroField, GoodField}

WeatherRows == {WeatherRow(0, 0, 0), WeatherRow(28, 100, 70)}

SoilRows ==
    {SoilRow(Some(0), Some(0), Some(0), Some(0), Some(0)),
     SoilRow(Some(75), None, Some(60), Some(0), Some(30))}

RequestPredictors ==
    {NoPredictor,
     Predictor("MLRecommendationService", "none", TRUE,
               <<[crop_name |-> "Rice", confidence_score |-> 40],
                 [crop_name |-> UnknownCrop, confidence_score |-> 90]>>,
               <<[raises |-> FALSE, value |-> None],
                 [raises |-> FALSE, value |-> None]>>)}

InitRequest ==
    /\ pc = "idle"
    /\ month \in {6, 11}
    /\ ML_AVAILABLE \in BOOLEAN
    /\ fields \in {[f \in Fields |-> IF f = "f1" THEN profile ELSE GoodField] :
                      profile \in FieldProfiles}
    /\ weather \in {[f \in Fields |-> IF f = "f1" THEN w ELSE <<>>] :
                       w \in {<<>>} \cup {<<r>> : r \in WeatherRows}}
    /\ soil_data = [f \in Fields |-> <<>>]
    /\ table = <<>>
    /\ last_request = <<>>
    /\ n_ops = 0
    /\ posts = [q \in Posts |-> NoPost]
    /\ gr_args = NoArgs
    /\ gr_limit = 0
    /\ gr_use_ml = FALSE
    /\ predictor = NoPredictor
    /\ gr_result = <<>>
    /\ ScoreIdle
    /\ RotationIdle
    /\ ServiceIdle
    /\ CalcIdle

notRequestVars ==
    <<pc, month, scoreVars, engineVars, rotationVars, serviceVars, calcVars>>

\* a new SoilData row for the field; it becomes field.soil_data.first()
RecordSoilData(f, row) ==
    /\ n_ops < MaxOps
    /\ n_ops' = n_ops + 1
    /\ soil_data' = [soil_data EXCEPT ![f] = <<row>>]
    /\ UNCHANGED <<fields, weather, table, last_request, posts>>
    /\ UNCHANGED notRequestVars

\* one POST of the request form by the field's owner, from validation to response
RecommendationRequest(user, f, include_weather, pr) ==
    /\ n_ops < MaxOps
    /\ Owner[f] = user
    /\ n_ops' = n_ops + 1
    /\ LET field == fields[f]
           latest_soil == soil_data[f]
           weather_data == LookupWeather(field, include_weather, weather[f])
           passed == FieldArgs(field, latest_soil, weather_data)
           reply == get_recommendation_for_field(field, latest_soil, weather_data,
                                                 RequestLimit, TRUE, ML_AVAILABLE,
                                                 pr, month)
           recommendations == reply.list
           saved == IF reply.status = "returned" /\ recommendations # <<>>
                    THEN SaveTop(table, recommendations, 1, user, f)
                    ELSE table
       IN /\ table' = saved
          /\ last_request' =
                <<[user |-> user, field |-> f,
                   stored |-> [field |-> field, latest_soil |-> latest_soil,
                               weather_data |-> weather_data],
                   passed |-> passed,
                   status |-> reply.status,
                   recommendations |-> recommendations,
                   rows_before |-> Len(table)]>>
    /\ UNCHANGED <<fields, soil_data, weather, posts>>
    /\ UNCHANGED notRequestVars

NextRequest ==
    \/ \E f \in Fields, row \in SoilRows : RecordSoilData(f, row)
    \/ \E u \in Users, f \in Fields, include_weather \in BOOLEAN,
          pr \in RequestPredictors :
          RecommendationRequest(u, f, include_weather, pr)

SpecRequest == InitRequest /\ [][NextRequest]_vars

\* ---------------------------------------------------------------------------
\* Properties of the recommendation request
\* ---------------------------------------------------------------------------

SameKey(r1, r2) ==
    /\ r1.user = r2.user
    /\ r1.field = r2.field
    /\ r1.crop_name = r2.crop_name

\* the last request got a non-empty list and went through the save loop
Saved ==
    /\ last_request # <<>>
    /\ last_request[1].status = "returned"
    /\ last_request[1].recommendations # <<>>

TopFive == 1..Min(Len(last_request[1].recommendations), TopToSave)

RowsOf(user, field, crop_name) ==
    {i \in 1..Len(table) : /\ table[i].user = user
                           /\ table[i].field = field
                           /\ table[i].crop_name = crop_name}

\* C4: starting from an empty table, after any sequence of requests handled one
\* after another there is at most one row per (user, field, crop_name), and every
\* crop in the top five of the last request has exactly one row of its key
C4_OneRowPerKey ==
    /\ \A i, j \in 1..Len(table) : SameKey(table[i], table[j]) => i = j
    /\ Saved =>
          \A k \in TopFive :
             Cardinality(RowsOf(last_request[1].user, last_request[1].field,
                                last_request[1].recommendations[k].crop_name)) = 1

\* a request that found rows of earlier requests, updated one of them and
\* inserted a row for a crop that had none
C4_Witness ==
    /\ Saved
    /\ last_request[1].rows_before > 0
    /\ Len(table) > last_request[1].rows_before
    /\ \E k \in TopFive :
          \E i \in RowsOf(last_request[1].user, last_request[1].field,
                          last_request[1].recommendations[k].crop_name) :
             /\ i <= last_request[1].rows_before
             /\ table[i].confidence_score
                   = last_request[1].recommendations[k].confidence_score

\* the value a request finds stored for a soil quantity: the latest sample's
\* when the sample has one, the field's own otherwise
StoredSoil(stored, of_sample, of_field) ==
    IF stored.latest_soil # <<>> /\ ~IsNone(stored.latest_soil[1][of_sample])
    THEN stored.latest_soil[1][of_sample]
    ELSE stored.field[of_field]

StoredWeather(stored, name) ==
    IF stored.weather_data # <<>> THEN Some(stored.weather_data[1][name]) ELSE None

ZeroKept(stored_value, passed_value) ==
    stored_value = Some(0) => passed_value = Some(0)

\* C8: a stored soil or weather value of exactly 0 reaches the scorer as the
\* number 0, and a stored N of 0 is scored 'deficient', never 'unknown'
C8_ZeroDistinctFromAbsent ==
    last_request # <<>> =>
        LET stored == last_request[1].stored
            passed == last_request[1].passed
        IN /\ ZeroKept(StoredSoil(stored, "ph", "soil_ph"), passed.soil_ph)
           /\ ZeroKept(StoredSoil(stored, "n", "n_content"), passed.soil_n)
           /\ ZeroKept(StoredSoil(stored, "p", "p_content"), passed.soil_p)
           /\ ZeroKept(StoredSoil(stored, "k", "k_content"), passed.soil_k)
           /\ ZeroKept(StoredSoil(stored, "moisture", "soil_moisture"),
                       passed.soil_moisture)
           /\ ZeroKept(StoredWeather(stored, "temperature"), passed.temperature)
           /\ ZeroKept(StoredWeather(stored, "rainfall"), passed.rainfall)
           /\ ZeroKept(StoredWeather(stored, "humidity"), passed.humidity)
           /\ StoredSoil(stored, "n", "n_content") = Some(0) =>
                 \A k \in 1..Len(last_request[1].recommendations) :
                    LET rec == last_request[1].recommendations[k] IN
                    ~rec.ml_prediction => rec.match_details["n"] = "deficient"

\* ---------------------------------------------------------------------------
\* Properties of the rotation headline and the neutral result
\* ---------------------------------------------------------------------------

HasRecent == \E i \in 1..Len(rot_history) : InWindow(rot_history[i])

\* the headline the bands of the compatibility scorer (80 / 60 / 40) would give
BandedAsCompatibility(score) ==
    IF score >= 80 THEN "Excellent crop rotation pattern"
    ELSE IF score >= 60 THEN "Good crop rotation pattern"
    ELSE IF score >= 40 THEN "Moderate crop rotation - some improvements recommended"
    ELSE "Poor crop rotation - significant improvements needed"

\* C11: with at least one in-window entry the first reason is the headline of
\* the bands >= 80 excellent, >= 60 good, >= 40 moderate, else poor
C11_HeadlineBands ==
    (Rotated /\ HasRecent) =>
        /\ Len(rot_result[1].reasons) >= 1
        /\ rot_result[1].reasons[1].text
              = BandedAsCompatibility(rot_result[1].rotation_score)

\* ---------------------------------------------------------------------------
\* ProfitCalculator.calculate_profit
\*
\* Units: expected_yield argument in kg, yield_multiplier in halves,
\* risk_adjustment in quarters, risk factors in twentieths; every amount of the
\* result that the code rounds to two decimals is held in hundredths.  The
\* arguments are drawn where the code's double arithmetic yields the exactly
\* rounded value.
\* ---------------------------------------------------------------------------

MARKET_PRICES ==
    [c \in Crops |->
        CASE c = "Rice" -> 25 [] c = "Wheat" -> 22 [] c = "Maize" -> 18
          [] c = "Cotton" -> 120 [] c = "Sugarcane" -> 3 [] c = "Potato" -> 15
          [] c = "Tomato" -> 30 [] c = "Onion" -> 20 [] c = "Chilli" -> 80
          [] c = "Groundnut" -> 60 [] c = "Soybean" -> 45 [] c = "Pigeon Pea" -> 50]

INPUT_COSTS ==
    [c \in Crops |->
        CASE c = "Rice" -> 40000 [] c = "Wheat" -> 35000 [] c = "Maize" -> 38000
          [] c = "Cotton" -> 50000 [] c = "Sugarcane" -> 60000 [] c = "Potato" -> 80000
          [] c = "Tomato" -> 100000 [] c = "Onion" -> 70000 [] c = "Chilli" -> 90000
          [] c = "Groundnut" -> 45000 [] c = "Soybean" -> 40000
          [] c = "Pigeon Pea" -> 35000]

LABOR_COSTS ==
    [c \in Crops |->
        CASE c = "Rice" -> 20000 [] c = "Wheat" -> 15000 [] c = "Maize" -> 18000
          [] c = "Cotton" -> 25000 [] c = "Sugarcane" -> 30000 [] c = "Potato" -> 25000
          [] c = "Tomato" -> 30000 [] c = "Onion" -> 20000 [] c = "Chilli" -> 25000
          [] c = "Groundnut" -> 20000 [] c = "Soybean" -> 18000
          [] c = "Pigeon Pea" -> 15000]

\* in twentieths: 0.3 is 6, 0.25 is 5
RISK_FACTORS ==
    [c \in Crops |->
        CASE c = "Rice" -> 6 [] c = "Wheat" -> 4 [] c = "Maize" -> 5
          [] c = "Cotton" -> 8 [] c = "Sugarcane" -> 4 [] c = "Potato" -> 7
          [] c = "Tomato" -> 8 [] c = "Onion" -> 6 [] c = "Chilli" -> 7
          [] c = "Groundnut" -> 5 [] c = "Soybean" -> 4 [] c = "Pigeon Pea" -> 4]

\* dict.get(crop_name, default)
Get(table_, crop_name, default) ==
    IF crop_name \in DOMAIN table_ THEN table_[crop_name] ELSE default

RECURSIVE Gcd(_, _)
Gcd(a, b) == IF b = 0 THEN a ELSE Gcd(b, a % b)

\* round(a / b) for b > 0, a tie going to the even neighbour as round() does
RoundHalfEven(a, b) ==
    LET q == a \div b
        r == a - q * b
    IN IF 2 * r < b THEN q
       ELSE IF 2 * r > b THEN q + 1
       ELSE IF q % 2 = 0 THEN q ELSE q + 1

\* round(a * n / d) for n >= 0, d > 0, with the fraction reduced first
MulDivRound(a, n, d) ==
    LET g1 == Gcd(Abs(a), d)
        a1 == a \div g1
        d1 == d \div g1
        g2 == Gcd(n, d1)
    IN RoundHalfEven(a1 * (n \div g2), d1 \div g2)

\* a version of the total that leaves the labor cost out
InputCostOnly(input_cost, labor_cost) == input_cost

TotalCosts(input_cost, labor_cost) == input_cost + labor_cost

calculate_profit(crop_name, expected_yield, yield_multiplier, risk_adjustment) ==
    LET market_price == Get(MARKET_PRICES, crop_name, 20)
        input_cost == Get(INPUT_COSTS, crop_name, 40000)
        labor_cost == Get(LABOR_COSTS, crop_name, 20000)
        risk_factor == Get(RISK_FACTORS, crop_name, 6)
        \* hundredths of a kg: halves of a kg times 50
        adjusted_yield == expected_yield * yield_multiplier * 50
        revenue == adjusted_yield * market_price
        total_costs == TotalCosts(input_cost, labor_cost)
        gross_profit == revenue - total_costs * 100
        \* 1 - risk_factor * risk_adjustment, in eightieths
        keep == 80 - risk_factor * risk_adjustment
        risk_adjusted_profit == MulDivRound(gross_profit, keep, 80)
        \* x / y * 100 in hundredths of a percent is x * 10000 / y
        profit_margin_pct ==
            IF revenue > 0 THEN MulDivRound(gross_profit, keep * 125, revenue) ELSE 0
        roi ==
            IF total_costs > 0
            THEN MulDivRound(gross_profit, keep * 125, total_costs * 100)
            ELSE 0
    IN [crop_name |-> crop_name,
        expected_yield |-> adjusted_yield,
        market_price_per_kg |-> market_price,
        revenue |-> revenue,
        input_costs |-> input_cost,
        labor_costs |-> labor_cost,
        total_costs |-> total_costs,
        gross_profit |-> gross_profit,
        risk_factor |-> risk_factor,
        risk_factor_percentage |-> risk_factor * 50,
        risk_adjusted_profit |-> risk_adjusted_profit,
        profit_margin |-> risk_adjusted_profit,
        profit_margin_percentage |-> profit_margin_pct,
        roi |-> roi,
        breakdown |-> [revenue |-> revenue,
                       costs |-> [inputs |-> input_cost, labor |-> labor_cost,
                                  total |-> total_costs],
                       profit |-> risk_adjusted_profit]]

MaxTonnes == 3

ProfitArgs ==
    {[crop_name |-> c, expected_yield |-> 1000 * t, yield_multiplier |-> ym,
      risk_adjustment |-> ra] :
        c \in CropArgs, t \in 0..MaxTonnes, ym \in 0..3, ra \in {0, 1, 4}}

NotCalcIdle ==
    /\ month = 1
    /\ ScoreIdle
    /\ EngineIdle
    /\ RotationIdle
    /\ ServiceIdle
    /\ RequestIdle

notCalcVars ==
    <<month, scoreVars, engineVars, rotationVars, serviceVars, requestVars>>

InitProfit ==
    /\ pc = "call"
    /\ call_args \in {<<a>> : a \in ProfitArgs}
    /\ call_result = <<>>
    /\ NotCalcIdle

CalculateProfit ==
    /\ pc = "call"
    /\ call_result' = <<calculate_profit(call_args[1].crop_name,
                                         call_args[1].expected_yield,
                                         call_args[1].yield_multiplier,
                                         call_args[1].risk_adjustment)>>
    /\ pc' = "return"
    /\ UNCHANGED <<call_args, notCalcVars>>

NextProfit == CalculateProfit

SpecProfit == InitProfit /\ [][NextProfit]_vars

\* ---------------------------------------------------------------------------
\* Properties of calculate_profit
\* ---------------------------------------------------------------------------

ProfitReturned == pc = "return" /\ call_result # <<>> /\ "roi" \in DOMAIN call_result[1]

\* C12: for every crop, expected_yield >= 0, yield_multiplier >= 0 and
\* risk_adjustment in [0, 1], risk_adjusted_profit <= gross_profit
C12_RiskReducesProfit ==
    ProfitReturned => call_result[1].risk_adjusted_profit <= call_result[1].gross_profit

\* n is x rounded to the nearest integer, x = num / den with den > 0
IsRounded(n, num, den) == 2 * Abs(n * den - num) <= den

\* C13: the result follows the stated formulas (yield, revenue, costs, gross and
\* risk-adjusted profit, margin and ROI percentages), the margin is 0 whenever
\* revenue <= 0, and a crop absent from the tables uses price 20, input cost
\* 40000, labor cost 20000 and risk 0.3
C13_ProfitFormulas ==
    ProfitReturned =>
        LET a == call_args[1]
            r == call_result[1]
            keep == 80 - r.risk_factor * a.risk_adjustment
            \* whole currency units, whole thousands of costs, revenue in 500s
            gross == r.gross_profit \div 100
            rev500 == r.revenue \div 50000
            costs1000 == r.total_costs \div 1000
        IN /\ r.expected_yield = a.expected_yield * a.yield_multiplier * 50
           /\ r.revenue = r.expected_yield * r.market_price_per_kg
           /\ r.total_costs = r.input_costs + r.labor_costs
           /\ r.gross_profit = r.revenue - 100 * r.total_costs
           /\ r.gross_profit % 100 = 0 /\ r.revenue % 50000 = 0
           /\ r.total_costs % 1000 = 0
           /\ IsRounded(r.risk_adjusted_profit, gross * keep * 5, 4)
           /\ r.revenue <= 0 => r.profit_margin_percentage = 0
           /\ r.revenue > 0 =>
                 IsRounded(r.profit_margin_percentage, gross * keep, 4 * rev500)
           /\ IsRounded(r.roi, gross * keep, 8 * costs1000)
           /\ a.yield_multiplier = 0 =>
                 r.revenue = 0 /\ r.profit_margin_percentage = 0
           /\ a.crop_name \notin Crops =>
                 /\ r.market_price_per_kg = 20
                 /\ r.input_costs = 40000
                 /\ r.labor_costs = 20000
                 /\ r.risk_factor = 6

\* a profitable call and, for the same kind of call, the zero multiplier
C13_Witness ==
    /\ ProfitReturned
    /\ call_args[1].crop_name \notin Crops
    /\ call_args[1].risk_adjustment = 1
    /\ call_result[1].gross_profit > 0
    /\ call_result[1].risk_adjusted_profit < call_result[1].gross_profit
    /\ call_result[1].profit_margin_percentage > 0

\* ---------------------------------------------------------------------------
\* Properties of the compatibility scorer on exact, missing and unknown input
\* ---------------------------------------------------------------------------

AtBoundary(req, a) ==
    /\ a.soil_ph \in {Some(req.ph_min), Some(req.ph_max)}
    /\ a.soil_n = Some(req.n_min)
    /\ a.soil_p = Some(req.p_min)
    /\ a.soil_k = Some(req.k_min)
    /\ a.soil_moisture = Some(req.moisture_min)
    /\ a.temperature \in {Some(req.temperature_min), Some(req.temperature_max)}

SeasonMet(req, a) ==
    \/ "year_round" \in req.season
    \/ ~IsNone(a.season) /\ Val(a.season) \in req.season

RiceExample ==
    Args(Some(62), Some(120), Some(25), Some(45), Some(65), Some(28),
         None, None, None, None, Some("kharif"))

ExcellentOnly == <<Reason("Excellent match for current conditions", 0)>>

\* C14: for every crop of the table, with every requirement met exactly at its
\* boundary and a season of the crop, the score is 100 and the only reason is
\* the excellent headline; so it is for Rice with pH 6.2, N 120, P 25, K 45,
\* moisture 65, temperature 28 in kharif
C14_ExactMatchIsPerfect ==
    (Scored /\ sc_crop \in Crops) =>
        /\ (AtBoundary(CROP_REQUIREMENTS[sc_crop], sc_args)
              /\ SeasonMet(CROP_REQUIREMENTS[sc_crop], sc_args))
             => /\ sc_result[1].score = 100
                /\ sc_result[1].reasons = ExcellentOnly
        /\ (sc_crop = "Rice" /\ sc_args = RiceExample)
             => /\ sc_result[1].score = 100
                /\ sc_result[1].reasons = ExcellentOnly

C14_Witness ==
    /\ Scored
    /\ sc_crop = "Potato"
    /\ sc_args.soil_ph = Some(55)
    /\ sc_args.temperature = Some(15)
    /\ sc_args.season = Some("zaid")
    /\ AtBoundary(CROP_REQUIREMENTS[sc_crop], sc_args)
    /\ sc_result[1].score = 100

AllMissing(a) ==
    /\ IsNone(a.soil_ph) /\ IsNone(a.soil_n) /\ IsNone(a.soil_p) /\ IsNone(a.soil_k)
    /\ IsNone(a.soil_moisture) /\ IsNone(a.temperature)

SixFactors == {"ph", "n", "p", "k", "moisture", "temperature"}

\* C15: with pH, N, P, K, moisture and temperature all missing, each of the six
\* is marked 'unknown', none adds a reason, and the score is 80, or 60 when the
\* season is unsuitable
C15_MissingIsSmallPenalty ==
    (Scored /\ sc_crop \in Crops /\ AllMissing(sc_args)) =>
        LET r == sc_result[1]
            unsuitable == r.match_details["season"] = "unsuitable"
        IN /\ \A f \in SixFactors : r.match_details[f] = "unknown"
           /\ r.score = IF unsuitable THEN 60 ELSE 80
           /\ Len(r.reasons) = IF unsuitable THEN 2 ELSE 1
           /\ unsuitable => r.reasons[2] = Reason("Current season not ideal for crop", 0)

C15_Witness ==
    /\ Scored /\ sc_crop = "Wheat" /\ AllMissing(sc_args)
    /\ sc_args.season = Some("kharif")
    /\ sc_result[1].score = 60

\* C19: for a crop name outside the table the result is the sentinel, whatever
\* the other arguments: score 0, the one reason 'Crop not in database', empty
\* match_details
C19_UnknownCropSentinel ==
    (Scored /\ sc_crop \notin Crops) =>
        /\ sc_result[1].score = 0
        /\ sc_result[1].reasons = <<Reason("Crop not in database", 0)>>
        /\ DOMAIN sc_result[1].match_details = {}

C19_Witness ==
    /\ Scored /\ sc_crop = UnknownCrop
    /\ sc_args.soil_ph = Some(50) /\ sc_args.soil_n = Some(100)
    /\ sc_args.season = Some("kharif")
    /\ sc_result[1].score = 0

NeutralReasons ==
    {<<Reason("No crop history - rotation score neutral", 0)>>,
     <<Reason("No recent crop history - rotation score neutral", 0)>>}

\* C16: with an empty history, or one with no entry inside the lookback window,
\* the result is rotation_score 100, one neutral reason, no benefit, no penalty
C16_NoHistoryIsNeutral ==
    (Rotated /\ ~HasRecent) =>
        /\ rot_result[1].rotation_score = 100
        /\ rot_result[1].reasons \in NeutralReasons
        /\ rot_result[1].reasons[1].text
              = IF rot_history = <<>> THEN "No crop history - rotation score neutral"
                ELSE "No recent crop history - rotation score neutral"
        /\ rot_result[1].rotation_benefits = <<>>
        /\ rot_result[1].rotation_penalties = <<>>

\* three entries of the crop itself, all older than the window or undated
C16_Witness ==
    /\ Rotated /\ ~HasRecent
    /\ Len(rot_history) = MaxHist
    /\ \A i \in 1..Len(rot_history) : rot_history[i].crop_name = Some(rot_crop)
    /\ \E i \in 1..Len(rot_history) : rot_history[i].year = Some(current_year - rot_years - 1)
    /\ \E i \in 1..Len(rot_history) : IsNone(rot_history[i].year)
    /\ rot_result[1].rotation_score = 100

\* ---------------------------------------------------------------------------
\* SustainabilityScorer.calculate_sustainability_score
\*
\* Units: water in liters per hectare; every score and bonus in tenths of a
\* point (12.5 is 125), percentages in tenths of a percent.
\* ---------------------------------------------------------------------------

WATER_USAGE ==
    [c \in Crops |->
        CASE c = "Rice" -> 2500000 [] c = "Wheat" -> 800000 [] c = "Maize" -> 600000
          [] c = "Cotton" -> 1000000 [] c = "Sugarcane" -> 2000000
          [] c = "Potato" -> 500000 [] c = "Tomato" -> 600000 [] c = "Onion" -> 400000
          [] c = "Chilli" -> 500000 [] c = "Groundnut" -> 500000
          [] c = "Soybean" -> 600000 [] c = "Pigeon Pea" -> 400000]

SOIL_HEALTH_IMPACT ==
    [c \in Crops |->
        CASE c = "Rice" -> -10 [] c = "Wheat" -> 0 [] c = "Maize" -> -5
          [] c = "Cotton" -> -20 [] c = "Sugarcane" -> -15 [] c = "Potato" -> -10
          [] c = "Tomato" -> -5 [] c = "Onion" -> 0 [] c = "Chilli" -> -5
          [] c = "Groundnut" -> 20 [] c = "Soybean" -> 25 [] c = "Pigeon Pea" -> 30]

CARBON_FOOTPRINT ==
    [c \in Crops |->
        CASE c = "Rice" -> 5000 [] c = "Wheat" -> 2000 [] c = "Maize" -> 2500
          [] c = "Cotton" -> 4000 [] c = "Sugarcane" -> 3000 [] c = "Potato" -> 2500
          [] c = "Tomato" -> 3000 [] c = "Onion" -> 2000 [] c = "Chilli" -> 2500
          [] c = "Groundnut" -> 1500 [] c = "Soybean" -> 1500
          [] c = "Pigeon Pea" -> 1000]

BIODIVERSITY_IMPACT ==
    [c \in Crops |->
        CASE c = "Rice" -> 10 [] c = "Wheat" -> 0 [] c = "Maize" -> -10
          [] c = "Cotton" -> -30 [] c = "Sugarcane" -> -20 [] c = "Potato" -> -5
          [] c = "Tomato" -> 0 [] c = "Onion" -> 0 [] c = "Chilli" -> 0
          [] c = "Groundnut" -> 10 [] c = "Soybean" -> 15 [] c = "Pigeon Pea" -> 20]

WaterScore(water_usage, water_availability) ==
    IF ~IsNone(water_availability)
    THEN LET w == Val(water_availability) IN
         IF 10 * w >= 12 * water_usage THEN 250
         ELSE IF w >= water_usage THEN 200
         ELSE IF 10 * w >= 8 * water_usage THEN 150
         ELSE 50
    ELSE IF water_usage < 500000 THEN 200
         ELSE IF water_usage < 1000000 THEN 150
         ELSE 100

\* 12.5 + impact / 2, clamped to 0..25
ImpactScore(impact) == Max(0, Min(250, 125 + impact * 5))

CarbonScore(carbon_footprint) ==
    IF carbon_footprint < 1500 THEN 250
    ELSE IF carbon_footprint < 2500 THEN 200
    ELSE IF carbon_footprint < 3500 THEN 150
    ELSE 100

\* a total that is capped above only
CapAtHundred(total_score) == Min(1000, total_score)

ClampTotal(total_score) == Max(0, Min(1000, total_score))

calculate_sustainability_score(crop_name, water_availability, soil_bonus, rot_bonus) ==
    LET water_usage == Get(WATER_USAGE, crop_name, 1000000)
        water_score == WaterScore(water_usage, water_availability)
        soil_impact == Get(SOIL_HEALTH_IMPACT, crop_name, 0)
        soil_score == ImpactScore(soil_impact) + soil_bonus
        carbon_footprint == Get(CARBON_FOOTPRINT, crop_name, 3000)
        carbon_score == CarbonScore(carbon_footprint)
        biodiversity_impact == Get(BIODIVERSITY_IMPACT, crop_name, 0)
        biodiversity_score == ImpactScore(biodiversity_impact) + rot_bonus
        total_score ==
            ClampTotal(water_score + soil_score + carbon_score + biodiversity_score)
    IN [sustainability_score |-> total_score,
        breakdown |->
            [water_score |-> water_score,
             water_score_percentage |-> water_score * 4,
             soil_score |-> soil_score,
             soil_score_percentage |-> soil_score * 4,
             carbon_score |-> carbon_score,
             carbon_score_percentage |-> carbon_score * 4,
             biodiversity_score |-> biodiversity_score,
             biodiversity_score_percentage |-> biodiversity_score * 4],
        factors |->
            [water_usage |-> water_usage,
             soil_health_impact |-> soil_impact,
             carbon_footprint |-> carbon_footprint,
             biodiversity_impact |-> biodiversity_impact]]

\* the largest bonus drawn, in tenths of a point, either sign
ExtremeBonus == 10000

BonusValues == {-ExtremeBonus, -75, 0, 200, ExtremeBonus}

WaterValues(water_usage) ==
    {None, Some(0), Some(8 * (water_usage \div 10) - 1), Some(8 * (water_usage \div 10)),
     Some(water_usage), Some(12 * (water_usage \div 10))}

SustainabilityArgs ==
    {[crop_name |-> c, water_availability |-> w, soil_health_bonus |-> sb,
      rotation_bonus |-> rb] :
        c \in CropArgs, w \in UNION {WaterValues(Get(WATER_USAGE, x, 1000000)) : x \in CropArgs},
        sb \in BonusValues, rb \in BonusValues}

InitSustainability ==
    /\ pc = "call"
    /\ call_args \in {<<a>> : a \in SustainabilityArgs}
    /\ call_result = <<>>
    /\ NotCalcIdle

CalculateSustainabilityScore ==
    /\ pc = "call"
    /\ call_result' = <<calculate_sustainability_score(call_args[1].crop_name,
                                                       call_args[1].water_availability,
                                                       call_args[1].soil_health_bonus,
                                                       call_args[1].rotation_bonus)>>
    /\ pc' = "return"
    /\ UNCHANGED <<call_args, notCalcVars>>

NextSustainability == CalculateSustainabilityScore

SpecSustainability == InitSustainability /\ [][NextSustainability]_vars

SustainabilityReturned ==
    pc = "return" /\ call_result # <<>> /\ "sustainability_score" \in DOMAIN call_result[1]

\* C17: for every crop, water availability and bonuses, however large or
\* negative, the total is within 0..100 and is the sum of the four sub-scores
\* clamped to 0..100, the soil and biodiversity sub-scores being their base,
\* itself within 0..25, plus the bonus
C17_SustainabilityClamped ==
    SustainabilityReturned =>
        LET a == call_args[1]
            r == call_result[1]
            b == r.breakdown
            sum == b.water_score + b.soil_score + b.carbon_score + b.biodiversity_score
        IN /\ r.sustainability_score >= 0 /\ r.sustainability_score <= 1000
           /\ r.sustainability_score
                 = IF sum < 0 THEN 0 ELSE IF sum > 1000 THEN 1000 ELSE sum
           /\ b.soil_score - a.soil_health_bonus \in 0..250
           /\ b.biodiversity_score - a.rotation_bonus \in 0..250

\* a sum far below zero clamped up, with both bonuses at their negative extreme
C17_Witness ==
    /\ SustainabilityReturned
    /\ call_args[1].soil_health_bonus = -ExtremeBonus
    /\ call_args[1].rotation_bonus = -ExtremeBonus
    /\ IsNone(call_args[1].water_availability)
    /\ call_result[1].sustainability_score = 0

\* ---------------------------------------------------------------------------
\* RecommendationRanker.calculate_composite_score
\*
\* Units: the four scores in whole points, risk_factor and the weights in
\* hundredths; composite_score and the breakdown in hundredths of a point.
\* ---------------------------------------------------------------------------

WeightNames == {"compatibility", "profit", "sustainability", "rotation", "risk"}

WEIGHTS ==
    [w \in WeightNames |->
        CASE w = "compatibility" -> 35 [] w = "profit" -> 25
          [] w = "sustainability" -> 20 [] w = "rotation" -> 15 [] w = "risk" -> 5]

\* a version that takes the profit score as given
ProfitAsGiven(profit_score) == profit_score

ProfitNormalized(profit_score) == Min(100, Max(0, profit_score))

calculate_composite_score(compatibility_score, profit_score, sustainability_score, rotation_score, risk_factor) ==
    LET profit_normalized == ProfitNormalized(profit_score)
        \* (1 - risk_factor) * 100, in points
        risk_score == 100 - risk_factor
        composite == compatibility_score * WEIGHTS["compatibility"]
                     + profit_normalized * WEIGHTS["profit"]
                     + sustainability_score * WEIGHTS["sustainability"]
                     + rotation_score * WEIGHTS["rotation"]
                     + risk_score * WEIGHTS["risk"]
    IN [composite_score |-> composite,
        breakdown |->
            [compatibility |-> compatibility_score * WEIGHTS["compatibility"],
             profit |-> profit_normalized * WEIGHTS["profit"],
             sustainability |-> sustainability_score * WEIGHTS["sustainability"],
             rotation |-> rotation_score * WEIGHTS["rotation"],
             risk |-> risk_score * WEIGHTS["risk"]],
        weights |-> WEIGHTS]

\* the ends of the scale, the worked example's values, and values off the scale
ScoreValues == {0, 60, 70, 80, 90, 100}

ProfitScoreValues == ScoreValues \cup {-50, 250}

RiskValues == {0, 20, 100}

CompositeArgs ==
    {[compatibility_score |-> c, profit_score |-> p, sustainability_score |-> su,
      rotation_score |-> ro, risk_factor |-> rf] :
        c \in ScoreValues, p \in ProfitScoreValues, su \in ScoreValues,
        ro \in ScoreValues, rf \in RiskValues}

InitComposite ==
    /\ pc = "call"
    /\ call_args \in {<<a>> : a \in CompositeArgs}
    /\ call_result = <<>>
    /\ NotCalcIdle

CalculateCompositeScore ==
    /\ pc = "call"
    /\ call_result' = <<calculate_composite_score(call_args[1].compatibility_score,
                                                  call_args[1].profit_score,
                                                  call_args[1].sustainability_score,
                                                  call_args[1].rotation_score,
                                                  call_args[1].risk_factor)>>
    /\ pc' = "return"
    /\ UNCHANGED <<call_args, notCalcVars>>

NextComposite == CalculateCompositeScore

SpecComposite == InitComposite /\ [][NextComposite]_vars

CompositeReturned ==
    pc = "return" /\ call_result # <<>> /\ "composite_score" \in DOMAIN call_result[1]

InScale(x) == x >= 0 /\ x <= 100

WorkedExample ==
    [compatibility_score |-> 80, profit_score |-> 60, sustainability_score |-> 70,
     rotation_score |-> 90, risk_factor |-> 20]

KeyOfRequest(row, req) ==
    /\ req.status = "returned"
    /\ row.user = req.user
    /\ row.field = req.field
    /\ \E k \in 1..Min(Len(req.recommendations), TopToSave) :
          req.recommendations[k].crop_name = row.crop_name

\* C20: a request deletes no row and writes only rows keyed by its user, its
\* field and one of its top five crops; every other row stays as it was, and the
\* number of rows never decreases
C20_WritesOnlyOwnKeys ==
    [][/\ Len(table') >= Len(table)
       /\ \A i \in 1..Len(table) :
             /\ table'[i].pk = table[i].pk
             /\ SameKey(table'[i], table[i])
             /\ table'[i] # table[i] => KeyOfRequest(table'[i], last_request'[1])
       /\ \A i \in (Len(table) + 1)..Len(table') :
             KeyOfRequest(table'[i], last_request'[1])]_vars

\* a second request for a field whose table holds a row of a crop that is no
\* longer among the top five: new rows are added and that row is still there
C20_Witness ==
    /\ Saved
    /\ last_request[1].rows_before > 0
    /\ Len(table) > last_request[1].rows_before
    /\ \E i \in 1..last_request[1].rows_before :
          /\ table[i].user = last_request[1].user
          /\ table[i].field = last_request[1].field
          /\ ~KeyOfRequest(table[i], last_request[1])

\* ---------------------------------------------------------------------------
\* The tiers of the compatibility scorer, factor by factor
\* ---------------------------------------------------------------------------

\* how far v lies outside lo..hi, 0 when inside
OutsideBy(v, lo, hi) == IF v < lo THEN lo - v ELSE IF v > hi THEN v - hi ELSE 0

\* what a factor with this label takes off the score
CostOf(f, label) ==
    CASE label \in {"optimal", "sufficient", "suitable"} -> 0
      [] label = "unknown" -> IF f = "ph" THEN 5 ELSE 3
      [] label = "acceptable" -> IF f = "ph" THEN 10 ELSE 5
      [] label = "poor" -> IF f = "ph" THEN 30 ELSE 15
      [] label = "low" -> 5
      [] label = "deficient" -> IF f = "moisture" THEN 10 ELSE 15
      [] label = "unsuitable" -> 20

SumCosts(details) ==
    CostOf("ph", details["ph"]) + CostOf("n", details["n"])
    + CostOf("p", details["p"]) + CostOf("k", details["k"])
    + CostOf("moisture", details["moisture"])
    + CostOf("temperature", details["temperature"])
    + CostOf("season", details["season"])

\* the score is 100 less what each factor's own label costs, not below 0
ScoreIsSumOfCosts(r) == r.score = Max(0, 100 - SumCosts(r.match_details))

\* the label of a range factor when the band outside the range is `band` wide,
\* its far end counted in or not
BandLabel(v, lo, hi, band, far_end_in) ==
    IF IsNone(v) THEN "unknown"
    ELSE LET d == OutsideBy(Val(v), lo, hi) IN
         IF d = 0 THEN "optimal"
         ELSE IF d < band \/ (far_end_in /\ d = band) THEN "acceptable"
         ELSE "poor"

RangeTiers(far_end_in) ==
    LET req == CROP_REQUIREMENTS[sc_crop]
        r == sc_result[1]
    IN /\ r.match_details["ph"]
             = BandLabel(sc_args.soil_ph, req.ph_min, req.ph_max, 5, far_end_in)
       /\ r.match_details["temperature"]
             = BandLabel(sc_args.temperature, req.temperature_min,
                         req.temperature_max, 3, far_end_in)
       /\ ScoreIsSumOfCosts(r)

\* C21: pH inside the range costs nothing, outside by at most 0.5 costs 10,
\* farther costs 30; temperature inside costs nothing, outside by at most 3
\* costs 5, farther costs 15; a missing pH costs 5, a missing temperature 3
C21_RangeTiersClosedBand ==
    (Scored /\ sc_crop \in Crops) => RangeTiers(TRUE)

\* the same with the band open at its far end: outside by less than 0.5 (less
\* than 3 degrees) is 'acceptable', outside by exactly 0.5 (3 degrees) or more
\* is 'poor'
C21_RangeTiersOpenBand ==
    (Scored /\ sc_crop \in Crops) => RangeTiers(FALSE)

\* a pH exactly 0.5 below the range and a temperature exactly 3 below it
C21_Witness ==
    /\ Scored /\ sc_crop = "Wheat"
    /\ sc_args.soil_ph = Some(55)
    /\ sc_args.temperature = Some(12)
    /\ sc_result[1].match_details["ph"] = "poor"
    /\ sc_result[1].match_details["temperature"] = "poor"

\* the label of a minimum factor whose "low" tier starts at tenths/10 of the
\* minimum; it reads the factor's own value and nothing else
MinimumLabel(v, minimum, tenths) ==
    IF IsNone(v) THEN "unknown"
    ELSE IF Val(v) >= minimum THEN "sufficient"
    ELSE IF 10 * Val(v) >= tenths * minimum THEN "low"
    ELSE "deficient"

\* C22: N, P and K each cost 0 at or above the crop's minimum, 5 at or above
\* 0.7 of it, 15 below that and 3 when missing; moisture costs 0 at or above
\* its minimum, 5 at or above 0.8 of it, 10 below that and 3 when missing; each
\* factor's penalty is fixed by that factor's value alone
C22_MinimumTiers ==
    (Scored /\ sc_crop \in Crops) =>
        LET req == CROP_REQUIREMENTS[sc_crop]
            d == sc_result[1].match_details
        IN /\ d["n"] = MinimumLabel(sc_args.soil_n, req.n_min, 7)
           /\ d["p"] = MinimumLabel(sc_args.soil_p, req.p_min, 7)
           /\ d["k"] = MinimumLabel(sc_args.soil_k, req.k_min, 7)
           /\ d["moisture"] = MinimumLabel(sc_args.soil_moisture, req.moisture_min, 8)
           /\ sc_result[1].score
                  = Max(0, 100 - CostOf("ph", d["ph"]) - CostOf("n", d["n"])
                               - CostOf("p", d["p"]) - CostOf("k", d["k"])
                               - CostOf("moisture", d["moisture"])
                               - CostOf("temperature", d["temperature"])
                               - CostOf("season", d["season"]))

\* Rice (moisture_min 60) with moisture 47, just under 0.8 of the minimum, N
\* just under 0.7 of its minimum and P on its minimum
C22_Witness ==
    /\ Scored /\ sc_crop = "Rice"
    /\ sc_args.soil_moisture = Some(47)
    /\ sc_args.soil_n = Some(69)
    /\ sc_args.soil_p = Some(20)
    /\ sc_result[1].match_details["moisture"] = "deficient"
    /\ sc_result[1].match_details["n"] = "deficient"
    /\ sc_result[1].match_details["p"] = "sufficient"

\* the calendar of the seasons
SeasonMonths ==
    [kharif |-> 6..10, rabi |-> {11, 12} \cup (1..3), zaid |-> 4..5]

SeasonsOfMonth(m) == {s \in Seasons : m \in SeasonMonths[s]}

\* the season the check uses: the one supplied, else the month's
SeasonUsed ==
    IF IsNone(sc_args.season)
    THEN CHOOSE s \in Seasons : month \in SeasonMonths[s]
    ELSE Val(sc_args.season)

\* C23: the season check uses the supplied season, else the month's season
\* (June-October kharif, November-March rabi, April-May zaid, one season per
\* month); the crop loses 20 points and is 'unsuitable' exactly when that
\* season is not in its set and the set does not hold year_round
C23_SeasonPenalty ==
    /\ Cardinality(SeasonsOfMonth(month)) = 1
    /\ (Scored /\ sc_crop \in Crops) =>
        LET req == CROP_REQUIREMENTS[sc_crop]
            r == sc_result[1]
            off == SeasonUsed \notin req.season /\ "year_round" \notin req.season
            rest == SumCosts([r.match_details EXCEPT !["season"] = "suitable"])
        IN /\ r.match_details["season"] = IF off THEN "unsuitable" ELSE "suitable"
           /\ r.score = Max(0, 100 - rest - (IF off THEN 20 ELSE 0))

\* Rice, a kharif crop, scored in October with no season supplied and every
\* other factor on its requirement: still in season
C23_Witness ==
    /\ Scored /\ sc_crop = "Rice"
    /\ IsNone(sc_args.season) /\ month = 10
    /\ sc_result[1].match_details["season"] = "suitable"
    /\ sc_result[1].score = 100

HeadlineTexts ==
    {"Excellent match for current conditions",
     "Good match for current conditions",
     "Moderate match - some conditions need improvement",
     "Poor match - significant improvements needed"}

HeadlineFor(score) ==
    IF score >= 80 THEN "Excellent match for current conditions"
    ELSE IF score >= 60 THEN "Good match for current conditions"
    ELSE IF score >= 40 THEN "Moderate match - some conditions need improvement"
    ELSE "Poor match - significant improvements needed"

\* the labels that come with a reason of their own
ReasonedLabels == {"acceptable", "poor", "low", "deficient", "unsuitable"}

\* C24: the reasons list is one headline, first, chosen from the final score
\* (>= 80 excellent, >= 60 good, >= 40 moderate, else poor), followed by one
\* reason for each factor labelled acceptable, poor, low, deficient or
\* unsuitable and none for the other labels
C24_HeadlineThenOnePerFactor ==
    (Scored /\ sc_crop \in Crops) =>
        LET r == sc_result[1]
            told == {f \in FactorNames : r.match_details[f] \in ReasonedLabels}
        IN /\ Len(r.reasons) = 1 + Cardinality(told)
           /\ r.reasons[1].text = HeadlineFor(r.score)
           /\ \A i \in 2..Len(r.reasons) : r.reasons[i].text \notin HeadlineTexts
           /\ \A f \in FactorNames :
                r.match_details[f] \in ReasonedLabels \cup
                    {"optimal", "sufficient", "suitable", "unknown"}

\* a score of 60, on the edge of the good band, with the headline and at least
\* two factor reasons
C24_Witness ==
    /\ Scored /\ sc_crop \in Crops
    /\ sc_result[1].score = 60
    /\ sc_result[1].reasons[1].text = "Good match for current conditions"
    /\ Len(sc_result[1].reasons) >= 3

\* ---------------------------------------------------------------------------
\* The rotation score as a formula over the entries of the window
\* ---------------------------------------------------------------------------

\* the indices of the entries of the window W
Window == {i \in 1..Len(rot_history) : InWindow(rot_history[i])}

\* the entries of W whose crop is one of names
Named(names) ==
    {i \in Window : ~IsNone(rot_history[i].crop_name)
                    /\ Val(rot_history[i].crop_name) \in names}

Legumes == {c \in Crops : CROP_FAMILIES[c] = "legume"}

SelfIncompatible == {"Rice", "Wheat", "Maize", "Tomato", "Chilli", "Potato"}

Reversed(seq) == [i \in 1..Len(seq) |-> seq[Len(seq) + 1 - i]]

\* C25: with W the entries of the last rot_years years and W not empty,
\* rotation_score = clamp(100 - min(25 S, 50) - 15 I + 10 C + 5 L, 0, 100): S
\* entries of W are the crop, I are in its incompatible list (which holds the
\* crop itself for Rice, Wheat, Maize, Tomato, Chilli and Potato), C are in its
\* compatible list, L is 1 exactly when the crop is a legume and some entry of
\* W is not; the order of the entries does not matter
C25_RotationFormula ==
    (Rotated /\ Window # {}) =>
        LET S == Cardinality(Named({rot_crop}))
            I == Cardinality(Named(IF rot_crop \in IncompatibleKeys
                                   THEN INCOMPATIBLE_CROPS[rot_crop] ELSE {}))
            C == Cardinality(Named(IF rot_crop \in Crops
                                   THEN COMPATIBLE_ROTATIONS[rot_crop] ELSE {}))
            L == IF /\ rot_crop \in Legumes
                    /\ Window # Named(Legumes)
                 THEN 1 ELSE 0
        IN /\ rot_result[1].rotation_score
                 = Max(0, Min(100, 100 - Min(25 * S, 50) - 15 * I + 10 * C + 5 * L))
           /\ rot_crop \in SelfIncompatible => I >= S
           /\ get_rotation_score(rot_crop, Reversed(rot_history), rot_years,
                                 current_year).rotation_score
                 = rot_result[1].rotation_score

\* Tomato after Tomato and Rice: the Tomato entry is counted as the same crop
\* and as an incompatible one, 100 - 25 - 15 = 60
C25_Witness ==
    /\ Rotated /\ rot_crop = "Tomato"
    /\ Cardinality(Window) = 2
    /\ Cardinality(Named({"Tomato"})) = 1
    /\ Cardinality(Named({"Rice"})) = 1
    /\ rot_history[1].crop_name # rot_history[2].crop_name
    /\ rot_result[1].rotation_score = 60

\* ---------------------------------------------------------------------------
\* RecommendationRanker.normalize_profit_for_scoring
\* profit and max_profit are whole rupees; the result is the fraction num / den
\* (den is max_profit on the relative branch and 1 elsewhere), which keeps
\* profit / max_profit * 100 exact.
\* ---------------------------------------------------------------------------

Fraction(num, den) == [num |-> num, den |-> den]

\* the relative score left uncapped
RelativeUncapped(profit, max_profit) == Fraction(profit * 100, max_profit)

\* min(100, (profit / max_profit) * 100)
RelativeScore(profit, max_profit) ==
    Fraction(Min(100 * max_profit, profit * 100), max_profit)

\* the thresholds of the absolute scoring
AbsoluteScore(profit) ==
    IF profit >= 200000 THEN 100
    ELSE IF profit >= 150000 THEN 85
    ELSE IF profit >= 100000 THEN 70
    ELSE IF profit >= 50000 THEN 50
    ELSE IF profit >= 25000 THEN 30
    ELSE 15

normalize_profit_for_scoring(profit, max_profit) ==
    IF profit <= 0 THEN Fraction(0, 1)
    ELSE IF ~IsNone(max_profit) /\ Val(max_profit) # 0 /\ Val(max_profit) > 0
    THEN RelativeScore(profit, Val(max_profit))
    ELSE Fraction(AbsoluteScore(profit), 1)

(***************************************************************************)
(* SpecNormalize: one call of normalize_profit_for_scoring                 *)
(***************************************************************************)
MaxProfit == 250000

\* either side of zero and of every threshold, and beyond the last one
ProfitValues ==
    {-50000, -1, 0, 1, 24999, 25000, 49999, 50000, 99999, 100000, 100001,
     149999, 150000, 199999, 200000, MaxProfit}

\* no reference, a reference that is not positive, and positive ones
MaxProfitValues ==
    {None, Some(-50000), Some(0), Some(1), Some(60000), Some(100000), Some(200000),
     Some(MaxProfit)}

NormalizeArgs ==
    {[profit |-> pf, max_profit |-> mx] : pf \in ProfitValues, mx \in MaxProfitValues}

InitNormalize ==
    /\ pc = "call"
    /\ call_args \in {<<a>> : a \in NormalizeArgs}
    /\ call_result = <<>>
    /\ NotCalcIdle

NormalizeProfitForScoring ==
    /\ pc = "call"
    /\ call_result' = <<normalize_profit_for_scoring(call_args[1].profit,
                                                     call_args[1].max_profit)>>
    /\ pc' = "return"
    /\ UNCHANGED <<call_args, notCalcVars>>

NextNormalize == NormalizeProfitForScoring

SpecNormalize == InitNormalize /\ [][NextNormalize]_vars

Normalized ==
    pc = "return" /\ call_result # <<>> /\ DOMAIN call_result[1] = {"num", "den"}

\* a / b <= c / d for fractions with positive denominators
AtMost(x, y) ==
    IF x.den = y.den THEN x.num <= y.num ELSE x.num * y.den <= y.num * x.den

\* the reference is one the relative scoring uses
PositiveReference(mx) == ~IsNone(mx) /\ Val(mx) > 0

\* the step of the ladder a profit stands on
Ladder(profit) ==
    CASE profit >= 200000 -> 100
      [] profit >= 150000 /\ profit < 200000 -> 85
      [] profit >= 100000 /\ profit < 150000 -> 70
      [] profit >= 50000 /\ profit < 100000 -> 50
      [] profit >= 25000 /\ profit < 50000 -> 30
      [] profit < 25000 -> 15

\* C26: normalize_profit_for_scoring gives 0 for a profit <= 0; with a positive
\* reference it gives min(100, profit / max_profit * 100); without one (or with
\* a zero or negative one) it gives 100 / 85 / 70 / 50 / 30 / 15 for a profit of
\* at least 200000 / 150000 / 100000 / 50000 / 25000 / less; the result lies in
\* 0..100 and never falls as the profit rises with the reference fixed
C26_NormalizedProfit ==
    Normalized =>
        LET pf == call_args[1].profit
            mx == call_args[1].max_profit
            r == call_result[1]
        IN /\ r.den > 0
           /\ pf <= 0 => r.num = 0
           /\ (pf > 0 /\ PositiveReference(mx)) =>
                 /\ r.den = Val(mx)
                 /\ IF pf >= Val(mx) THEN r.num = 100 * r.den ELSE r.num = 100 * pf
           /\ (pf > 0 /\ ~PositiveReference(mx)) =>
                 r.num = Ladder(pf) /\ r.den = 1
           /\ r.num >= 0 /\ r.num <= 100 * r.den
           /\ \A q \in ProfitValues :
                 q <= pf =>
                     LET lower == normalize_profit_for_scoring(q, mx)
                     IN AtMost(lower, r)

\* a profit above the reference: capped at 100
C26_Witness ==
    /\ Normalized
    /\ call_args[1].profit = 100001
    /\ call_args[1].max_profit = Some(100000)
    /\ call_result[1] = Fraction(10000000, 100000)

\* ---------------------------------------------------------------------------
\* The records of the rule-based path (Spec)
\* ---------------------------------------------------------------------------

\* C27: on the rule-based path with limit >= 12 the result holds one record per
\* crop of the table; in every rule-based record confidence_score is the crop's
\* compatibility score, expected_yield and profit_margin are the crop's average
\* yield and average profit times score / 100 (so between 0 and the average),
\* sustainability_score is the crop's baseline and ml_prediction is False
\* (expected_yield and profit_margin are held in hundredths)
C27_RuleBasedRecords ==
    (Returned /\ RuleBasedPath) =>
        /\ gr_limit >= 12 =>
              /\ Len(ResultList) = 12
              /\ \A c \in Crops :
                    Cardinality({i \in 1..Len(ResultList) : ResultList[i].crop_name = c}) = 1
        /\ \A i \in 1..Len(ResultList) :
              LET r == ResultList[i]
                  score == calculate_compatibility_score(r.crop_name, gr_args, month).score
              IN /\ r.crop_name \in Crops
                 /\ r.confidence_score = score
                 /\ r.expected_yield = AVERAGE_YIELDS[r.crop_name] * score
                 /\ r.profit_margin = AVERAGE_PROFITS[r.crop_name] * score
                 /\ r.expected_yield >= 0
                 /\ r.expected_yield <= 100 * AVERAGE_YIELDS[r.crop_name]
                 /\ r.profit_margin >= 0
                 /\ r.profit_margin <= 100 * AVERAGE_PROFITS[r.crop_name]
                 /\ r.sustainability_score
                        = CROP_REQUIREMENTS[r.crop_name].sustainability_score
                 /\ ~r.ml_prediction

\* limit 12 with use_ml off: twelve records, the best at full yield and the
\* worst below it
C27_Witness ==
    /\ Returned /\ ~gr_use_ml /\ gr_limit = 12
    /\ Len(ResultList) = 12
    /\ ResultList[1].confidence_score = 100
    /\ ResultList[1].expected_yield = 100 * AVERAGE_YIELDS[ResultList[1].crop_name]
    /\ ResultList[12].confidence_score < 100
    /\ ResultList[12].expected_yield < 100 * AVERAGE_YIELDS[ResultList[12].crop_name]

\* predict_yield raises for some record of the reply
YieldRaises ==
    /\ gr_use_ml /\ ML_AVAILABLE /\ predictor.fault = "none"
    /\ \E i \in 1..Len(PredictorReply(predictor, gr_limit)) : predictor.yields[i].raises

\* C28: a returned list is all predictor records or all rule-based records;
\* when the predictor fails part-way (predict_yield raises after some records
\* were assembled) the assembled records are dropped and the rule-based list
\* is returned without any of them
C28_HomogeneousLists ==
    (Returned /\ gr_result[1].status = "returned") =>
        /\ \/ \A i \in 1..Len(ResultList) : ResultList[i].ml_prediction
           \/ \A i \in 1..Len(ResultList) : ~ResultList[i].ml_prediction
        /\ YieldRaises =>
              /\ ResultList = RuleBased(gr_args, gr_limit, month)
              /\ \A i \in 1..Len(ResultList) :
                    /\ ~ResultList[i].ml_prediction
                    /\ "ml_prediction" \notin DOMAIN ResultList[i].match_details

\* predict_yield raises for the third crop, after two records were assembled
C28_Witness ==
    /\ Returned /\ gr_use_ml /\ ML_AVAILABLE /\ predictor.fault = "none"
    /\ Len(PredictorReply(predictor, gr_limit)) = 3
    /\ ~predictor.yields[1].raises /\ ~predictor.yields[2].raises
    /\ predictor.yields[3].raises
    /\ gr_limit >= 3
    /\ Len(ResultList) = 12
    /\ ~ResultList[1].ml_prediction

\* the same conditions without rainfall, humidity and position
WithoutWeather(a) ==
    [a EXCEPT !.rainfall = None, !.humidity = None, !.latitude = None,
              !.longitude = None]

\* C30: on the rule-based path the result depends only on pH, N, P, K,
\* moisture, temperature, season and limit: rainfall, humidity, latitude and
\* longitude change nothing, and the compatibility score does not read the
\* rainfall although every crop has a rainfall_min
C30_WeatherExtrasIgnored ==
    (Returned /\ RuleBasedPath) =>
        /\ ResultList = RuleBased(WithoutWeather(gr_args), gr_limit, month)
        /\ \A c \in Crops :
              calculate_compatibility_score(c, gr_args, month)
                  = calculate_compatibility_score(c, WithoutWeather(gr_args), month)

\* a call with no rainfall at all, far under every crop's rainfall_min, and
\* Rice still at 100
C30_Witness ==
    /\ Returned /\ RuleBasedPath
    /\ gr_args.rainfall = Some(0)
    /\ gr_args.humidity = Some(80)
    /\ gr_args.latitude = Some(17)
    /\ gr_limit >= 1
    /\ ResultList[1].crop_name = "Rice"
    /\ ResultList[1].confidence_score = 100

(***************************************************************************)
(* SpecOverlap: recommendation_request handled for two submissions at      *)
(* once.  Each submission runs the view in its own worker; the view holds  *)
(* no lock and opens no transaction, so its statements on the table - the  *)
(* filter(...).first() of line 54 and the save() or create() that follows  *)
(* - are separate steps that the other worker's steps may come between.    *)
(***************************************************************************)

\* Recommendation.objects.create(...): the table takes the row
InsertRow(rows, row) == Append(rows, row)

InitOverlap ==
    /\ pc = "idle"
    /\ month \in {6, 11}
    /\ ML_AVAILABLE = FALSE
    /\ fields \in {[f \in Fields |-> IF f = "f1" THEN profile ELSE GoodField] :
                      profile \in {ZeroField, GoodField}}
    /\ weather = [f \in Fields |-> <<>>]
    /\ soil_data = [f \in Fields |-> <<>>]
    /\ table = <<>>
    /\ last_request = <<>>
    /\ n_ops = 0
    /\ posts = [q \in Posts |-> NoPost]
    /\ gr_args = NoArgs
    /\ gr_limit = 0
    /\ gr_use_ml = FALSE
    /\ predictor = NoPredictor
    /\ gr_result = <<>>
    /\ ScoreIdle
    /\ RotationIdle
    /\ ServiceIdle
    /\ CalcIdle

\* lines 18-52: the form is valid, the recommendations are computed, and the
\* loop over recommendations[:5] is about to start
BeginRequest(q, f) ==
    /\ posts[q].pc = "form"
    /\ LET field == fields[f]
           weather_data == LookupWeather(field, TRUE, weather[f])
           reply == get_recommendation_for_field(field, soil_data[f], weather_data,
                                                 RequestLimit, TRUE, ML_AVAILABLE,
                                                 NoPredictor, month)
           top == SubSeq(reply.list, 1, Min(Len(reply.list), TopToSave))
       IN posts' = [posts EXCEPT ![q] =
                       [pc |-> IF top = <<>> THEN "done" ELSE "lookup",
                        field |-> f, recs |-> top, i |-> 1, existing |-> 0]]
    /\ UNCHANGED <<fields, soil_data, weather, table, last_request, n_ops>>
    /\ UNCHANGED notRequestVars

\* lines 54-58: existing = Recommendation.objects.filter(...).first()
LookupExisting(q) ==
    /\ posts[q].pc = "lookup"
    /\ LET f == posts[q].field
           rec == posts[q].recs[posts[q].i]
       IN posts' = [posts EXCEPT ![q].existing =
                                     FindExisting(table, Owner[f], f, rec.crop_name),
                                 ![q].pc = "write"]
    /\ UNCHANGED <<fields, soil_data, weather, table, last_request, n_ops>>
    /\ UNCHANGED notRequestVars

\* lines 60-108: existing.save() or Recommendation.objects.create(...), then
\* the next record of the loop
WriteRow(q) ==
    /\ posts[q].pc = "write"
    /\ LET f == posts[q].field
           rec == posts[q].recs[posts[q].i]
           existing == posts[q].existing
       IN table' = IF existing # 0
                   THEN [table EXCEPT ![existing] = UpdateRow(table[existing], rec)]
                   ELSE InsertRow(table, CreateRow(Len(table) + 1, Owner[f], f, rec))
    /\ posts' = [posts EXCEPT ![q].i = posts[q].i + 1,
                              ![q].existing = 0,
                              ![q].pc = IF posts[q].i + 1 > Len(posts[q].recs)
                                        THEN "done" ELSE "lookup"]
    /\ UNCHANGED <<fields, soil_data, weather, last_request, n_ops>>
    /\ UNCHANGED notRequestVars

NextOverlap ==
    \/ \E q \in Posts, f \in Fields : BeginRequest(q, f)
    \/ \E q \in Posts : LookupExisting(q)
    \/ \E q \in Posts : WriteRow(q)

SpecOverlap == InitOverlap /\ [][NextOverlap]_vars

\* both submissions are by the same user for the same field and have run to
\* their response
BothAnswered ==
    /\ \A q \in Posts : posts[q].pc = "done"
    /\ posts["post1"].field = posts["post2"].field

\* C29: two submissions by the same user for the same field that run at the
\* same time never leave two rows with the same (user, field, crop_name)
C29_NoDuplicateUnderOverlap ==
    BothAnswered =>
        \A c \in Crops :
            Cardinality({i \in 1..Len(table) :
                            /\ table[i].field = posts["post1"].field
                            /\ table[i].user = Owner[posts["post1"].field]
                            /\ table[i].crop_name = c}) <= 1

====
